---------------------------- MODULE Spec2Model ----------------------------
(***************************************************************************)
(* Model of dbctool.py: the semantic model builder (Bus.__init__), the     *)
(* DBC serializer (Bus.dbc) and the diff engine (Bus.diff).                *)
(*                                                                         *)
(* A parsed section is the tuple the parser returns, with Python's index   *)
(* i written i+1: <<"BS_", body>>, <<"BO_", msg_d>>, ...  Python's None is *)
(* written None where the value is otherwise a number, and as the empty    *)
(* tuple where it is otherwise a tuple.  A Signal object is identified by  *)
(* its index in the heap of the message that created it, since Signal      *)
(* defines no __eq__ and is compared by identity.  Insertion-ordered       *)
(* dicts are sequences of <<key, value>> pairs.                            *)
(***************************************************************************)
EXTENDS Integers, Sequences, FiniteSets, TLC

VARIABLES seclist0, bus, cl, pc, text, bus2, diffres, parser, rng

vars == <<seclist0, bus, cl, pc, text, bus2, diffres, parser, rng>>

None == -1

Min(a, b) == IF a < b THEN a ELSE b

-----------------------------------------------------------------------------
(* Generic helpers for sequences and insertion-ordered dicts.              *)

Range1(s) == {s[i] : i \in 1..Len(s)}

RECURSIVE Pow2(_)
Pow2(n) == IF n = 0 THEN 1 ELSE 2 * Pow2(n - 1)

DictHas(d, k) == \E i \in 1..Len(d) : d[i][1] = k

DictGet(d, k) == d[CHOOSE i \in 1..Len(d) : d[i][1] = k][2]

DictSet(d, k, v) ==
    IF DictHas(d, k)
    THEN [i \in 1..Len(d) |-> IF d[i][1] = k THEN <<k, v>> ELSE d[i]]
    ELSE Append(d, <<k, v>>)

DictKeys(d) == {d[i][1] : i \in 1..Len(d)}

(* A remove that leaves the list as it is.                                 *)
ListRemove_keep(s, x) == s

(* list.remove(x): the list without the first x.                           *)
ListRemove(s, x) ==
    LET i == CHOOSE j \in 1..Len(s) : s[j] = x /\ \A h \in 1..(j - 1) : s[h] # x
    IN  SubSeq(s, 1, i - 1) \o SubSeq(s, i + 1, Len(s))

(* list(dict.fromkeys(nl)): drops repetitions, keeps first occurrences.    *)
RECURSIVE FromKeys(_)
FromKeys(nl) ==
    IF nl = <<>> THEN <<>>
    ELSE LET front == FromKeys(SubSeq(nl, 1, Len(nl) - 1))
             last  == nl[Len(nl)]
         IN  IF last \in Range1(front) THEN front ELSE Append(front, last)

-----------------------------------------------------------------------------
(* Range and Switch.                                                       *)

RangeOf(l1, l2) == <<l1, l2>>

(* Range.within and Range.intersection; <<>> is the None of the latter.    *)
within(self, x) == x >= self[1] /\ x <= self[2]

intersection(self, other) ==
    IF self[1] > other[2] \/ self[2] < other[1] THEN <<>>
    ELSE RangeOf(IF self[1] > other[1] THEN self[1] ELSE other[1],
                 IF self[2] < other[2] THEN self[2] ELSE other[2])

NoRanges == [pc |-> "none", r1 |-> <<0, 0>>, r2 |-> <<0, 0>>, x |-> 0]

SwitchAppend(sw, r, sig) ==
    IF \E i \in 1..Len(sw) : sw[i][1] = r /\ sw[i][2] = sig
    THEN sw
    ELSE Append(sw, <<r, sig>>)

(* Switch.any_multiples: some signal object sits under more than one range *)
any_multiples(sw) ==
    \E i, j \in 1..Len(sw) : i # j /\ sw[i][2] = sw[j][2]

-----------------------------------------------------------------------------
(* Signal and Message.                                                     *)

Signal(d) ==
    [name            |-> d.name,
     multiplex_value |-> d.multiplex_value,
     is_multiplexor  |-> d.is_multiplexor,
     numbits         |-> d.size,
     switch          |-> <<>>,
     comments        |-> <<>>,
     attributes      |-> <<>>]

multiplexes_le(sig, val) ==
    sig.is_multiplexor /\ val >= 0 /\ val <= Pow2(sig.numbits)

multiplexes(sig, val) ==
    sig.is_multiplexor /\ val >= 0 /\ val < Pow2(sig.numbits)

Message(id, name, size, transmitter) ==
    [id           |-> id,
     name         |-> name,
     size         |-> size,
     transmitters |-> <<transmitter>>,
     heap         |-> <<>>,
     signals      |-> <<>>,
     signals_dict |-> <<>>,
     comments     |-> <<>>,
     attributes   |-> <<>>,
     signal_groups |-> <<>>]

(* Message.append: the new Signal object gets the next heap index.         *)
MessageAppend(msg, sg) ==
    LET o == Len(msg.heap) + 1
    IN  [msg EXCEPT !.heap = Append(@, sg),
                    !.signals = Append(@, o),
                    !.signals_dict = DictSet(@, sg.name, o)]

-----------------------------------------------------------------------------
(* Bus under construction.  err = "" while no exception was raised; after  *)
(* a raise the constructor produced no Bus and the record only keeps what  *)
(* was raised.                                                             *)

NewBus(sl) ==
    [seclist    |-> sl,
     err        |-> "",
     errmsg     |-> "",
     errargs    |-> <<>>,
     version    |-> "",
     baudrate   |-> None,
     btr        |-> <<>>,
     nodes      |-> <<>>,
     newsymbols |-> <<>>,
     messages   |-> <<>>,
     comments   |-> <<>>,
     global_values   |-> <<>>,
     attrib_typedefs |-> <<>>,
     attrib_defaults |-> <<>>,
     attributes |-> <<>>,
     warnings   |-> <<>>]

Raise(b, kind, msg, args) ==
    [b EXCEPT !.err = kind, !.errmsg = msg, !.errargs = args]

(* DatabaseError.__init__(self, msg) takes exactly one argument: a call    *)
(* with two raises TypeError instead of constructing the DatabaseError.    *)
RaiseDatabaseError(b, msg, fmtargs, nctorargs) ==
    IF nctorargs = 1
    THEN Raise(b, "DatabaseError", msg, fmtargs)
    ELSE Raise(b, "TypeError", "DatabaseError.__init__", <<nctorargs>>)

Reverse(s) == [i \in 1..Len(s) |-> s[Len(s) + 1 - i]]

(* Bus._xtract_sec: the indices of the sections tagged sec, largest first, *)
(* are popped from seclist one by one and the popped sections collected,   *)
(* then the collection is reversed.  rest is what is left of seclist.      *)
Indices(seclist, sec) ==
    SelectSeq([k \in 1..Len(seclist) |-> Len(seclist) + 1 - k],
              LAMBDA i : seclist[i][1] = sec)

RECURSIVE PopAll(_, _, _)
PopAll(seclist, indices, xtr) ==
    IF indices = <<>> THEN [xtr |-> xtr, rest |-> seclist]
    ELSE LET ii == Head(indices)
         IN  PopAll(SubSeq(seclist, 1, ii - 1) \o SubSeq(seclist, ii + 1, Len(seclist)),
                    Tail(indices), Append(xtr, seclist[ii]))

xtract_sec_noreverse(seclist, sec) == PopAll(seclist, Indices(seclist, sec), <<>>)

xtract_sec(seclist, sec) ==
    LET popped == PopAll(seclist, Indices(seclist, sec), <<>>)
    IN  [xtr |-> Reverse(popped.xtr), rest |-> popped.rest]

MsgHas(msgs, id) == \E i \in 1..Len(msgs) : msgs[i].id = id

MsgIdx(msgs, id) == CHOOSE i \in 1..Len(msgs) : msgs[i].id = id

NodeHas(nodes, name) == \E i \in 1..Len(nodes) : nodes[i].name = name

NodeIdx(nodes, name) == CHOOSE i \in 1..Len(nodes) : nodes[i].name = name

(* VERSION *)
StepVERSION(b) ==
    LET x  == xtract_sec(b.seclist, "VERSION")
        sl == x.xtr
        b1 == [b EXCEPT !.seclist = x.rest]
    IN  IF Len(sl) = 0 THEN RaiseDatabaseError(b1, "missing section", <<"VERSION">>, 1)
        ELSE IF Len(sl) > 1
        THEN RaiseDatabaseError(b1, "more than one section", <<"VERSION">>, 1)
        ELSE [b1 EXCEPT !.version = sl[1][2]]

StepBS_nozero(b) ==
    LET x  == xtract_sec(b.seclist, "BS_")
        sl == x.xtr
        b1 == [b EXCEPT !.seclist = x.rest]
    IN  IF Len(sl) = 0 THEN RaiseDatabaseError(b1, "missing section", <<"BS_">>, 1)
        ELSE IF Len(sl) > 1
        THEN RaiseDatabaseError(b1, "more than one section", <<"BS_">>, 1)
        ELSE LET t == sl[1]
             IN  IF Len(t[2]) > 0 /\ t[2][1] # 0
                 THEN [b1 EXCEPT !.baudrate = t[2][1],
                                 !.btr = SubSeq(t[2], 2, Len(t[2]))]
                 ELSE [b1 EXCEPT !.baudrate = None,
                                 !.btr = SubSeq(t[2], 2, Len(t[2]))]

(* BS_: "if t[1]" is the truth value of a tuple, true iff it is not empty. *)
StepBS_(b) ==
    LET x  == xtract_sec(b.seclist, "BS_")
        sl == x.xtr
        b1 == [b EXCEPT !.seclist = x.rest]
    IN  IF Len(sl) = 0 THEN RaiseDatabaseError(b1, "missing section", <<"BS_">>, 1)
        ELSE IF Len(sl) > 1
        THEN RaiseDatabaseError(b1, "more than one section", <<"BS_">>, 1)
        ELSE LET t == sl[1]
             IN  IF Len(t[2]) > 0
                 THEN [b1 EXCEPT !.baudrate = t[2][1],
                                 !.btr = SubSeq(t[2], 2, Len(t[2]))]
                 ELSE [b1 EXCEPT !.baudrate = None, !.btr = <<>>]

(* BU_ *)
StepBU_(b) ==
    LET x  == xtract_sec(b.seclist, "BU_")
        sl == x.xtr
        b1 == [b EXCEPT !.seclist = x.rest]
    IN  IF Len(sl) = 0 THEN RaiseDatabaseError(b1, "missing section", <<"BU_">>, 1)
        ELSE IF Len(sl) > 1
        THEN RaiseDatabaseError(b1, "more than one section", <<"BU_">>, 1)
        ELSE LET nl == FromKeys(sl[1][2])
             IN  [b1 EXCEPT !.nodes =
                      [i \in 1..Len(nl) |->
                          [name |-> nl[i], comments |-> <<>>, attributes |-> <<>>]],
                            !.warnings = IF Len(nl) # Len(sl[1][2])
                                         THEN Append(@, <<"BU_: repeated nodes">>)
                                         ELSE @]

(* NS_ *)
StepNS_(b) ==
    LET x  == xtract_sec(b.seclist, "NS_")
        sl == x.xtr
        b1 == [b EXCEPT !.seclist = x.rest]
    IN  IF Len(sl) = 0 THEN [b1 EXCEPT !.newsymbols = <<>>]
        ELSE IF Len(sl) > 1
        THEN RaiseDatabaseError(b1, "more than one section", <<"NS_">>, 1)
        ELSE [b1 EXCEPT !.newsymbols = sl[1][2]]

(* VAL_TABLE_.  tab[2].sort(key=lambda x: x[0], reverse=True) is a stable  *)
(* sort: entries with one value keep their order.  The sorted entries are  *)
(* put into a dict one by one; a value that is there already gives a       *)
(* DatabaseWarning and its label is overwritten.                           *)
RECURSIVE InsertDesc(_, _, _)
InsertDesc(s, t, stable) ==
    IF s = <<>> THEN <<t>>
    ELSE IF Head(s)[1] > t[1] \/ (stable /\ Head(s)[1] = t[1])
    THEN <<Head(s)>> \o InsertDesc(Tail(s), t, stable)
    ELSE <<t>> \o s

RECURSIVE SortHow(_, _)
SortHow(tl, stable) ==
    IF tl = <<>> THEN <<>>
    ELSE InsertDesc(SortHow(SubSeq(tl, 1, Len(tl) - 1), stable), tl[Len(tl)], stable)

TableSort_unstable(tl) == SortHow(tl, FALSE)

TableSort(tl) == SortHow(tl, TRUE)

RECURSIVE TableVals(_, _, _)
TableVals(b, tabname, tl) ==
    IF tl = <<>> THEN b
    ELSE LET t    == Head(tl)
             vals == DictGet(b.global_values, tabname)
             b1   == IF DictHas(vals, t[1])
                     THEN [b EXCEPT !.warnings = Append(@, <<"table", tabname, t[1]>>)]
                     ELSE b
         IN  TableVals([b1 EXCEPT !.global_values =
                                      DictSet(@, tabname, DictSet(vals, t[1], t[2]))],
                       tabname, Tail(tl))

VAL_TABLE_one(b, tab) ==
    IF DictHas(b.global_values, tab[2])
    THEN RaiseDatabaseError(b, "multiply defined table", <<tab[2]>>, 1)
    ELSE TableVals([b EXCEPT !.global_values = DictSet(@, tab[2], <<>>)],
                   tab[2], TableSort(tab[3]))

RECURSIVE VAL_TABLE_loop(_, _)
VAL_TABLE_loop(b, sl) ==
    IF sl = <<>> \/ b.err # "" THEN b
    ELSE VAL_TABLE_loop(VAL_TABLE_one(b, Head(sl)), Tail(sl))

StepVAL_TABLE_(b) ==
    LET x == xtract_sec(b.seclist, "VAL_TABLE_")
    IN  VAL_TABLE_loop([b EXCEPT !.seclist = x.rest], x.xtr)

RECURSIVE AppendSignals(_, _)
AppendSignals(msg, sigs) ==
    IF sigs = <<>> THEN msg
    ELSE AppendSignals(MessageAppend(msg, Signal(Head(sigs))), Tail(sigs))

BO_one_overwrite(b, msg_d) ==
    LET msg == Message(msg_d.id, msg_d.name, msg_d.size, msg_d.transmitter)
        new == AppendSignals(msg, msg_d.signals)
    IN  IF MsgHas(b.messages, msg.id)
        THEN [b EXCEPT !.messages[MsgIdx(b.messages, msg.id)] = new]
        ELSE [b EXCEPT !.messages = Append(@, new)]

(* One iteration of the BO_ loop.                                          *)
BO_one(b, msg_d) ==
    LET msg == Message(msg_d.id, msg_d.name, msg_d.size, msg_d.transmitter)
    IN  IF MsgHas(b.messages, msg.id)
        THEN RaiseDatabaseError(b, "multiple definitions of message",
                                <<msg.id, msg.name>>, 1)
        ELSE [b EXCEPT !.messages = Append(@, AppendSignals(msg, msg_d.signals))]

RECURSIVE BO_loop(_, _)
BO_loop(b, ml) ==
    IF ml = <<>> \/ b.err # "" THEN b
    ELSE BO_loop(BO_one(b, Head(ml)[2]), Tail(ml))

(* BO_ *)
StepBO_(b) ==
    LET x == xtract_sec(b.seclist, "BO_")
    IN  BO_loop([b EXCEPT !.seclist = x.rest], x.xtr)

-----------------------------------------------------------------------------
(* One iteration of the CM_ loop; c0 = <<"CM_", c>> and c[1] is the scope. *)
CM_one(b, c0) ==
    LET c  == c0[2]
        ct == c[1]
    IN  IF ct = "" THEN [b EXCEPT !.comments = Append(@, c[2])]
        ELSE IF ct = "BU_" THEN
            IF NodeHas(b.nodes, c[2])
            THEN [b EXCEPT !.nodes[NodeIdx(b.nodes, c[2])].comments = Append(@, c[3])]
            ELSE RaiseDatabaseError(b, "comment for undefined node", <<c[2]>>, 2)
        ELSE IF ct = "BO_" THEN
            IF MsgHas(b.messages, c[2])
            THEN [b EXCEPT !.messages[MsgIdx(b.messages, c[2])].comments = Append(@, c[3])]
            ELSE RaiseDatabaseError(b, "comment for undefined message", <<c[2]>>, 1)
        ELSE IF ct = "SG_" THEN
            IF MsgHas(b.messages, c[2])
            THEN LET mi  == MsgIdx(b.messages, c[2])
                     msg == b.messages[mi]
                 IN  IF DictHas(msg.signals_dict, c[3])
                     THEN [b EXCEPT !.messages[mi].heap[DictGet(msg.signals_dict, c[3])]
                                        .comments = Append(@, c[4])]
                     ELSE RaiseDatabaseError(b, "comment for undefined signal",
                                             <<c[3], c[2]>>, 1)
            ELSE RaiseDatabaseError(b, "comment for signal in undefined message",
                                    <<c[3], c[2]>>, 1)
        ELSE IF ct = "EV_" THEN RaiseDatabaseError(b, "CM_ EV_ not implented", <<>>, 1)
        ELSE Raise(b, "ValueError", "unknown comment type specifier", <<ct>>)

-----------------------------------------------------------------------------
(* Attribute definitions, defaults and values; signal groups.              *)

(* One iteration of the BA_DEF_ loop; c0 = <<"BA_DEF_", ct, name, typ>>.   *)
(* attrib_typedefs[ct][name] is kept under the key <<ct, name>>.           *)
BA_DEF_one(b, c0) ==
    LET ct   == c0[2]
        name == c0[3]
        typ  == c0[4]
    IN  IF ct \notin {"", "BU_", "BO_", "SG_", "EV_"}
        THEN RaiseDatabaseError(b, "unknown object type in BA_DEF_", <<ct>>, 1)
        ELSE IF DictHas(b.attrib_typedefs, <<ct, name>>)
        THEN RaiseDatabaseError(b, "attribute already defined", <<name, ct>>, 1)
        ELSE IF typ[1] \in {"INT", "HEX", "FLOAT"}
        THEN [b EXCEPT !.attrib_typedefs =
                 DictSet(@, <<ct, name>>, [type |-> typ[1], values |-> Tail(typ)])]
        ELSE IF typ[1] = "STRING"
        THEN [b EXCEPT !.attrib_typedefs =
                 DictSet(@, <<ct, name>>, [type |-> typ[1], values |-> <<>>])]
        ELSE IF typ[1] = "ENUM"
        THEN [b EXCEPT !.attrib_typedefs =
                 DictSet(@, <<ct, name>>, [type |-> typ[1], values |-> typ[2]])]
        ELSE Raise(b, "ValueError", "unknown object type", <<typ[1]>>)

(* One iteration of the BA_DEF_DEF_ loop; c = <<"BA_DEF_DEF_", name, val>>. *)
(* The raise for a repeated name passes format(name) as a second argument  *)
(* of DatabaseError.                                                       *)
BA_DEF_DEF_one(b, c) ==
    LET name == c[2]
        val  == c[3]
    IN  IF DictHas(b.attrib_defaults, name)
        THEN RaiseDatabaseError(b, "attribute default value multiply defined",
                                <<name>>, 2)
        ELSE [b EXCEPT !.attrib_defaults = DictSet(@, name, val)]

(* One iteration of the BA_ loop; c = <<"BA_", name, d, val>>.  The SG_    *)
(* branch formats its messages with the local variable sig, which is not   *)
(* bound before the multiplex reconstruction, and has no assignment to     *)
(* the signal's attributes.                                                *)
BA_one(b, c) ==
    LET name == c[2]
        d    == c[3]
        val  == c[4]
        ct   == d[1]
        unbound == Raise(b, "UnboundLocalError", "sig", <<>>)
    IN  IF ct = "" THEN
            IF DictHas(b.attributes, name)
            THEN RaiseDatabaseError(b, "general attribute multiply defined", <<name>>, 1)
            ELSE [b EXCEPT !.attributes = DictSet(@, name, val)]
        ELSE IF ct = "BU_" THEN
            IF ~NodeHas(b.nodes, d[2])
            THEN RaiseDatabaseError(b, "unknown node in attribute value statement",
                                    <<d[2]>>, 1)
            ELSE LET ni == NodeIdx(b.nodes, d[2])
                 IN  IF DictHas(b.nodes[ni].attributes, name)
                     THEN RaiseDatabaseError(b, "attribute multiply defined for node",
                                             <<name, d[2]>>, 1)
                     ELSE [b EXCEPT !.nodes[ni].attributes = DictSet(@, name, val)]
        ELSE IF ct = "BO_" THEN
            IF ~MsgHas(b.messages, d[2])
            THEN RaiseDatabaseError(b, "unknown message id in attribute value statement",
                                    <<d[2]>>, 1)
            ELSE LET mi == MsgIdx(b.messages, d[2])
                 IN  IF DictHas(b.messages[mi].attributes, name)
                     THEN RaiseDatabaseError(b, "attribute multiply defined for message",
                                             <<name, d[2]>>, 1)
                     ELSE [b EXCEPT !.messages[mi].attributes = DictSet(@, name, val)]
        ELSE IF ct = "SG_" THEN
            IF ~MsgHas(b.messages, d[2]) THEN unbound
            ELSE LET msg == b.messages[MsgIdx(b.messages, d[2])]
                 IN  IF ~DictHas(msg.signals_dict, d[3]) THEN unbound
                     ELSE IF DictHas(msg.heap[DictGet(msg.signals_dict, d[3])].attributes,
                                     name)
                     THEN unbound
                     ELSE b
        ELSE IF ct = "EV_"
        THEN RaiseDatabaseError(b, "attributes for EV_ not implemented", <<>>, 1)
        ELSE b

(* One iteration of the SIG_GROUP_ loop;                                   *)
(* c = <<"SIG_GROUP_", id, group_name, n, sigs>>.  The listed names keep   *)
(* their order and lose their repeats.  The raise for a repeated group     *)
(* name reads goup_name and the one for undefined signals reads groupname; *)
(* neither name exists.                                                    *)
SIG_GROUP_one(b, c) ==
    LET id         == c[2]
        group_name == c[3]
    IN  IF ~MsgHas(b.messages, id)
        THEN RaiseDatabaseError(b, "unknown message id in definition of signal group",
                                <<id, group_name>>, 1)
        ELSE LET mi      == MsgIdx(b.messages, id)
                 msg     == b.messages[mi]
                 signals == FromKeys(c[5])
                 undef   == Range1(signals) \ DictKeys(msg.signals_dict)
             IN  IF DictHas(msg.signal_groups, group_name)
                 THEN Raise(b, "NameError", "goup_name", <<>>)
                 ELSE IF undef # {}
                 THEN Raise(b, "NameError", "groupname", <<>>)
                 ELSE [b EXCEPT !.messages[mi].signal_groups =
                          DictSet(@, group_name, [n |-> c[4], names |-> signals])]

-----------------------------------------------------------------------------
(* Single-multiplexor reconstruction.                                      *)

(* The inner loop "for sig in multiplexed" of one message with exactly one *)
(* multiplexor mux (a heap index); stops at the first raise.               *)
RECURSIVE Organize(_, _, _)
Organize(msg, mux, multiplexed) ==
    IF multiplexed = <<>> THEN [msg |-> msg, ok |-> TRUE, bad |-> 0]
    ELSE LET sig == Head(multiplexed)
             v   == msg.heap[sig].multiplex_value
         IN  IF multiplexes(msg.heap[mux], v)
             THEN Organize([msg EXCEPT
                               !.heap[mux].switch = SwitchAppend(@, RangeOf(v, v), sig),
                               !.signals = ListRemove(@, sig)],
                           mux, Tail(multiplexed))
             ELSE [msg |-> msg, ok |-> FALSE, bad |-> sig]

LastMux(msg) ==
    LET top == msg.signals
        k   == CHOOSE i \in 1..Len(top) :
                   /\ msg.heap[top[i]].is_multiplexor
                   /\ \A j \in (i + 1)..Len(top) : ~msg.heap[top[j]].is_multiplexor
    IN  top[k]

OrganizeMsg(msg) ==
    LET top         == msg.signals
        num_muxes   == Cardinality({i \in 1..Len(top) : msg.heap[top[i]].is_multiplexor})
        multiplexed == SelectSeq(top, LAMBDA o : msg.heap[o].multiplex_value # None)
    IN  IF num_muxes = 1
        THEN [r |-> Organize(msg, LastMux(msg), multiplexed), mux |-> LastMux(msg)]
        ELSE [r |-> [msg |-> msg, ok |-> TRUE, bad |-> 0], mux |-> 0]

RECURSIVE OrganizeLoop(_, _)
OrganizeLoop(b, i) ==
    IF i > Len(b.messages) THEN b
    ELSE LET om == OrganizeMsg(b.messages[i])
             r  == om.r
             b1 == [b EXCEPT !.messages[i] = r.msg]
         IN  IF r.ok THEN OrganizeLoop(b1, i + 1)
             ELSE RaiseDatabaseError(b1, "multiplex value not in range of multiplexor",
                      <<r.msg.heap[r.bad].name, r.msg.id, r.msg.heap[om.mux].name>>, 1)

StepOrganize(b) == OrganizeLoop(b, 1)

-----------------------------------------------------------------------------
(* One iteration of the SG_MUL_VAL_ loop;                                  *)
(* c = <<"SG_MUL_VAL_", <<id, signame, muxname>>, ranges>>.                *)

RECURSIVE AppendRanges(_, _, _)
AppendRanges(sw, ranges, sig) ==
    IF ranges = <<>> THEN sw
    ELSE AppendRanges(SwitchAppend(sw, RangeOf(Head(ranges)[1], Head(ranges)[2]), sig),
                      Tail(ranges), sig)

SG_MUL_VAL_one_lenient(b, c) ==
    LET id      == c[2][1]
        signame == c[2][2]
        muxname == c[2][3]
        ranges  == c[3]
    IN  IF ~MsgHas(b.messages, id)
        THEN RaiseDatabaseError(b, "unknown message id", <<id, signame, muxname>>, 1)
        ELSE LET mi  == MsgIdx(b.messages, id)
                 msg == b.messages[mi]
             IN  IF ~DictHas(msg.signals_dict, signame)
                 THEN RaiseDatabaseError(b, "unknown signal name", <<signame, id>>, 1)
                 ELSE IF ~DictHas(msg.signals_dict, muxname)
                 THEN RaiseDatabaseError(b, "unknown multiplexor name", <<muxname, id>>, 1)
                 ELSE LET sig == DictGet(msg.signals_dict, signame)
                          mux == DictGet(msg.signals_dict, muxname)
                      IN  IF ~msg.heap[mux].is_multiplexor
                          THEN RaiseDatabaseError(b, "named multiplexor is not a multiplexor",
                                                  <<muxname, id>>, 1)
                          ELSE IF sig \in Range1(msg.signals)
                          THEN [b EXCEPT
                                  !.messages[mi].signals = ListRemove(@, sig),
                                  !.messages[mi].heap[mux].switch =
                                      AppendRanges(@, ranges, sig)]
                          ELSE [b EXCEPT
                                  !.messages[mi].heap[mux].switch =
                                      AppendRanges(@, ranges, sig)]

(* One iteration of the SG_MUL_VAL_ loop.                                  *)
SG_MUL_VAL_one(b, c) ==
    LET id      == c[2][1]
        signame == c[2][2]
        muxname == c[2][3]
        ranges  == c[3]
    IN  IF ~MsgHas(b.messages, id)
        THEN RaiseDatabaseError(b, "unknown message id", <<id, signame, muxname>>, 1)
        ELSE LET mi  == MsgIdx(b.messages, id)
                 msg == b.messages[mi]
             IN  IF ~DictHas(msg.signals_dict, signame)
                 THEN RaiseDatabaseError(b, "unknown signal name", <<signame, id>>, 1)
                 ELSE IF ~DictHas(msg.signals_dict, muxname)
                 THEN RaiseDatabaseError(b, "unknown multiplexor name", <<muxname, id>>, 1)
                 ELSE LET sig == DictGet(msg.signals_dict, signame)
                          mux == DictGet(msg.signals_dict, muxname)
                      IN  IF ~msg.heap[mux].is_multiplexor
                          THEN RaiseDatabaseError(b, "named multiplexor is not a multiplexor",
                                                  <<muxname, id>>, 1)
                          ELSE IF sig \in Range1(msg.signals)
                          THEN [b EXCEPT
                                  !.messages[mi].signals = ListRemove(@, sig),
                                  !.messages[mi].heap[mux].switch =
                                      AppendRanges(@, ranges, sig)]
                          ELSE RaiseDatabaseError(b,
                                  "multiplexed be more than one multiplexor",
                                  <<signame, id>>, 1)

-----------------------------------------------------------------------------
(* Orphan check and the final "sections left to unpack" check.             *)

RECURSIVE Flatten(_)
Flatten(ss) == IF ss = <<>> THEN <<>> ELSE Head(ss) \o Flatten(Tail(ss))

nonmuxed(b) ==
    Flatten([i \in 1..Len(b.messages) |->
        LET msg == b.messages[i]
            bad == SelectSeq(msg.signals, LAMBDA o : msg.heap[o].multiplex_value # None)
        IN  [j \in 1..Len(bad) |-> <<msg.id, msg.heap[bad[j]].name>>]])

StepNonmuxed_skip(b) == b

StepNonmuxed(b) ==
    IF nonmuxed(b) # <<>>
    THEN RaiseDatabaseError(b, "signals with unspecified multiplexor", nonmuxed(b), 1)
    ELSE b

StepLeft(b) ==
    IF b.seclist # <<>>
    THEN Raise(b, "Exception", "sections left to unpack", b.seclist)
    ELSE b

-----------------------------------------------------------------------------
(* Bus.__init__ as one function of the section list, for a second Bus.     *)

RECURSIVE CM_loop(_, _)
CM_loop(b, secs) ==
    IF secs = <<>> \/ b.err # "" THEN b
    ELSE CM_loop(CM_one(b, Head(secs)), Tail(secs))

StepCM_(b) ==
    LET x == xtract_sec(b.seclist, "CM_")
    IN  CM_loop([b EXCEPT !.seclist = x.rest], x.xtr)

RECURSIVE BA_DEF_loop(_, _)
BA_DEF_loop(b, secs) ==
    IF secs = <<>> \/ b.err # "" THEN b
    ELSE BA_DEF_loop(BA_DEF_one(b, Head(secs)), Tail(secs))

StepBA_DEF_(b) ==
    LET x == xtract_sec(b.seclist, "BA_DEF_")
    IN  BA_DEF_loop([b EXCEPT !.seclist = x.rest], x.xtr)

RECURSIVE BA_DEF_DEF_loop(_, _)
BA_DEF_DEF_loop(b, secs) ==
    IF secs = <<>> \/ b.err # "" THEN b
    ELSE BA_DEF_DEF_loop(BA_DEF_DEF_one(b, Head(secs)), Tail(secs))

StepBA_DEF_DEF_(b) ==
    LET x == xtract_sec(b.seclist, "BA_DEF_DEF_")
    IN  BA_DEF_DEF_loop([b EXCEPT !.seclist = x.rest], x.xtr)

RECURSIVE BA_loop(_, _)
BA_loop(b, secs) ==
    IF secs = <<>> \/ b.err # "" THEN b
    ELSE BA_loop(BA_one(b, Head(secs)), Tail(secs))

StepBA_(b) ==
    LET x == xtract_sec(b.seclist, "BA_")
    IN  BA_loop([b EXCEPT !.seclist = x.rest], x.xtr)

RECURSIVE SIG_GROUP_loop(_, _)
SIG_GROUP_loop(b, secs) ==
    IF secs = <<>> \/ b.err # "" THEN b
    ELSE SIG_GROUP_loop(SIG_GROUP_one(b, Head(secs)), Tail(secs))

StepSIG_GROUP_(b) ==
    LET x == xtract_sec(b.seclist, "SIG_GROUP_")
    IN  SIG_GROUP_loop([b EXCEPT !.seclist = x.rest], x.xtr)

RECURSIVE SG_MUL_VAL_loop(_, _)
SG_MUL_VAL_loop(b, secs) ==
    IF secs = <<>> \/ b.err # "" THEN b
    ELSE SG_MUL_VAL_loop(SG_MUL_VAL_one(b, Head(secs)), Tail(secs))

StepSG_MUL_VAL_(b) ==
    LET x == xtract_sec(b.seclist, "SG_MUL_VAL_")
    IN  SG_MUL_VAL_loop([b EXCEPT !.seclist = x.rest], x.xtr)

BusStep(b, k) ==
    CASE k = 1 -> StepVERSION(b)
      [] k = 2 -> StepBS_(b)
      [] k = 3 -> StepBU_(b)
      [] k = 4 -> StepNS_(b)
      [] k = 5 -> StepVAL_TABLE_(b)
      [] k = 6 -> StepBO_(b)
      [] k = 7 -> StepCM_(b)
      [] k = 8 -> StepBA_DEF_(b)
      [] k = 9 -> StepBA_DEF_DEF_(b)
      [] k = 10 -> StepBA_(b)
      [] k = 11 -> StepSIG_GROUP_(b)
      [] k = 12 -> StepOrganize(b)
      [] k = 13 -> StepSG_MUL_VAL_(b)
      [] k = 14 -> StepNonmuxed(b)
      [] OTHER -> StepLeft(b)

RECURSIVE BusSteps(_, _)
BusSteps(b, k) ==
    IF b.err # "" \/ k > 15 THEN b ELSE BusSteps(BusStep(b, k), k + 1)

BusInit(sl) == BusSteps(NewBus(sl), 1)

-----------------------------------------------------------------------------
(* Bus.dbc followed by Parser.parse: the emitted text is written as the    *)
(* section list the parser reads back from it.  A string the parser        *)
(* returned holds no double quote and no backslash, so the emitted strings *)
(* read back unchanged; an unsigned number is emitted in decimal and reads *)
(* back unchanged.  What is emitted, and from which field, is as in the    *)
(* code.                                                                   *)

Truthy(n) == n # None /\ n # 0

dbc_BS_(b) ==
    <<"BS_", IF Truthy(b.baudrate) /\ b.btr # <<>>
             THEN <<b.baudrate, b.btr[1], b.btr[2]>>
             ELSE <<>>>>

(* Signal.dbc: the fields of the SG_ line, as Parser.signal reads them.    *)
Signal_dbc(sig) ==
    [name            |-> sig.name,
     multiplex_value |-> sig.multiplex_value,
     is_multiplexor  |-> sig.is_multiplexor,
     size            |-> sig.numbits]

(* Message.dbc: one SG_ line per entry of signals_dict.                    *)
Message_dbc(msg) ==
    <<"BO_", [id          |-> msg.id,
              name        |-> msg.name,
              size        |-> msg.size,
              transmitter |-> msg.transmitters[1],
              signals     |-> [i \in 1..Len(msg.signals_dict) |->
                                  Signal_dbc(msg.heap[msg.signals_dict[i][2]])]]>>

(* Switch.dbc_sg_mul_val_strs: the first signal object of every name in    *)
(* the switch, and per name the ranges in switch order.                    *)
SwitchSigs(msg, sw) ==
    LET first == SelectSeq([i \in 1..Len(sw) |-> i],
                     LAMBDA i : \A j \in 1..(i - 1) :
                         msg.heap[sw[j][2]].name # msg.heap[sw[i][2]].name)
    IN  [k \in 1..Len(first) |-> sw[first[k]][2]]

SwitchRanges(msg, sw, signame) ==
    LET hit == SelectSeq(sw, LAMBDA e : msg.heap[e[2]].name = signame)
    IN  [k \in 1..Len(hit) |-> hit[k][1]]

(* Signal.dbc_sg_mul_val; fuel bounds the recursion by the heap size.      *)
RECURSIVE Signal_dbc_sg_mul_val(_, _, _)
Signal_dbc_sg_mul_val(msg, self, fuel) ==
    IF ~msg.heap[self].is_multiplexor \/ fuel = 0 THEN <<>>
    ELSE LET sw   == msg.heap[self].switch
             sigs == SwitchSigs(msg, sw)
         IN  Flatten([k \in 1..Len(sigs) |->
                 <<<<"SG_MUL_VAL_",
                     <<msg.id, msg.heap[sigs[k]].name, msg.heap[self].name>>,
                     SwitchRanges(msg, sw, msg.heap[sigs[k]].name)>>>>
                 \o Signal_dbc_sg_mul_val(msg, sigs[k], fuel - 1)])

Message_dbc_sg_mul_val(msg) ==
    LET sd == msg.signals_dict
        multiple_muxes ==
            Cardinality({i \in 1..Len(sd) : msg.heap[sd[i][2]].is_multiplexor}) > 1
        multiple_switches ==
            \E i \in 1..Len(sd) : any_multiples(msg.heap[sd[i][2]].switch)
    IN  IF multiple_muxes \/ multiple_switches
        THEN Flatten([k \in 1..Len(msg.signals) |->
                 Signal_dbc_sg_mul_val(msg, msg.signals[k], Len(msg.heap))])
        ELSE <<>>

CommentLines(scope, cs) == [k \in 1..Len(cs) |-> <<"CM_", scope \o <<cs[k]>>>>]

dbc_CM_(b) ==
    CommentLines(<<"">>, b.comments)
    \o Flatten([i \in 1..Len(b.nodes) |->
           CommentLines(<<"BU_", b.nodes[i].name>>, b.nodes[i].comments)])
    \o Flatten([i \in 1..Len(b.messages) |->
           LET msg == b.messages[i]
               d   == msg.signals_dict
           IN  CommentLines(<<"BO_", msg.id>>, msg.comments)
               \o Flatten([k \in 1..Len(d) |->
                      CommentLines(<<"SG_", msg.id, d[k][1]>>,
                                   msg.heap[d[k][2]].comments)])])

(* Bus.dbc, attribute definitions: object types in the order of the dict   *)
(* literal, names in insertion order.                                      *)
dbc_VAL_TABLE_(b) ==
    [k \in 1..Len(b.global_values) |->
        <<"VAL_TABLE_", b.global_values[k][1], b.global_values[k][2]>>]

dbc_BA_DEF_(b) ==
    LET td  == b.attrib_typedefs
        ots == <<"", "BU_", "BO_", "SG_", "EV_">>
        typ(t) == IF t.type \in {"INT", "HEX", "FLOAT"} THEN <<t.type>> \o t.values
                  ELSE IF t.type = "ENUM" THEN <<t.type, t.values>>
                  ELSE <<t.type>>
    IN  Flatten([o \in 1..Len(ots) |->
            LET mine == SelectSeq(td, LAMBDA e : e[1][1] = ots[o])
            IN  [k \in 1..Len(mine) |->
                    <<"BA_DEF_", ots[o], mine[k][1][2], typ(mine[k][2])>>]])

dbc_BA_DEF_DEF_(b) ==
    [k \in 1..Len(b.attrib_defaults) |->
        <<"BA_DEF_DEF_", b.attrib_defaults[k][1], b.attrib_defaults[k][2]>>]

AttributeLines(d, attrs) == [k \in 1..Len(attrs) |-> <<"BA_", attrs[k][1], d, attrs[k][2]>>]

dbc_BA_(b) ==
    AttributeLines(<<"">>, b.attributes)
    \o Flatten([i \in 1..Len(b.nodes) |->
           AttributeLines(<<"BU_", b.nodes[i].name>>, b.nodes[i].attributes)])
    \o Flatten([i \in 1..Len(b.messages) |->
           LET msg == b.messages[i]
               d   == msg.signals_dict
           IN  AttributeLines(<<"BO_", msg.id>>, msg.attributes)
               \o Flatten([k \in 1..Len(d) |->
                      AttributeLines(<<"SG_", msg.id, d[k][1]>>,
                                     msg.heap[d[k][2]].attributes)])])

(* SignalGroup.dbc inside the SIG_GROUP_ line of Bus.dbc.                  *)
dbc_SIG_GROUP_(b) ==
    Flatten([i \in 1..Len(b.messages) |->
        LET msg == b.messages[i]
            g   == msg.signal_groups
        IN  [k \in 1..Len(g) |->
                <<"SIG_GROUP_", msg.id, g[k][1], g[k][2].n, g[k][2].names>>]])

dbc(b) ==
    <<  <<"VERSION", b.version>>,
        <<"NS_", b.newsymbols>>,
        dbc_BS_(b),
        <<"BU_", [i \in 1..Len(b.nodes) |-> b.nodes[i].name]>>  >>
    \o dbc_VAL_TABLE_(b)
    \o [i \in 1..Len(b.messages) |-> Message_dbc(b.messages[i])]
    \o dbc_CM_(b)
    \o dbc_BA_DEF_(b)
    \o dbc_BA_DEF_DEF_(b)
    \o dbc_BA_(b)
    \o dbc_SIG_GROUP_(b)
    \o Flatten([i \in 1..Len(b.messages) |-> Message_dbc_sg_mul_val(b.messages[i])])

-----------------------------------------------------------------------------
(* Message.diff and Bus.diff: "" when no difference is found, otherwise    *)
(* the heading of the first difference reported.                           *)

(* SignalGroup.diff: the sets of names.                                    *)
SignalGroup_diff_oneway(self, other) ==
    IF Range1(self.names) \ Range1(other.names) # {} THEN "signal group" ELSE ""

SignalGroup_diff(self, other) ==
    IF Range1(self.names) # Range1(other.names) THEN "signal group" ELSE ""

Message_diff(self, other) ==
    LET own_sigs   == DictKeys(self.signals_dict)
        sg         == self.signal_groups
        other_sigs == DictKeys(other.signals_dict)
        sd         == self.signals_dict
    IN  IF self.id # other.id THEN "message id"
        ELSE IF self.name # other.name THEN "message name"
        ELSE IF self.size # other.size THEN "message size"
        ELSE IF Range1(self.transmitters) # Range1(other.transmitters) THEN "transmitters"
        ELSE IF own_sigs # other_sigs THEN "signals"
        ELSE IF \E i \in 1..Len(sd) :
                    Signal_dbc(self.heap[sd[i][2]])
                        # Signal_dbc(other.heap[DictGet(other.signals_dict, sd[i][1])])
             THEN "signal"
        ELSE IF self.comments # other.comments THEN "comments"
        ELSE IF Range1(self.attributes) # Range1(other.attributes) THEN "attributes"
        ELSE IF DictKeys(sg) # DictKeys(other.signal_groups) THEN "signal groups"
        ELSE IF \E k \in 1..Len(sg) :
                    SignalGroup_diff(sg[k][2], DictGet(other.signal_groups, sg[k][1])) # ""
             THEN "signal group"
        ELSE ""

Bus_diff(self, other) ==
    LET own_nodes   == {self.nodes[i].name : i \in 1..Len(self.nodes)}
        other_nodes == {other.nodes[i].name : i \in 1..Len(other.nodes)}
        own_ids     == {self.messages[i].id : i \in 1..Len(self.messages)}
        other_ids   == {other.messages[i].id : i \in 1..Len(other.messages)}
        msgdiffs    == [i \in 1..Len(self.messages) |->
                           Message_diff(self.messages[i],
                               other.messages[MsgIdx(other.messages, self.messages[i].id)])]
        differing   == SelectSeq(msgdiffs, LAMBDA d : d # "")
    IN  IF self.version # other.version THEN "version"
        ELSE IF self.baudrate # other.baudrate THEN "baudrate"
        ELSE IF self.btr # other.btr /\ (self.btr = <<>> \/ other.btr = <<>>)
             THEN "TypeError"
        ELSE IF self.btr # other.btr /\ self.btr[1] # other.btr[1] THEN "btr1"
        ELSE IF self.btr # other.btr /\ self.btr[2] # other.btr[2] THEN "btr2"
        ELSE IF own_nodes # other_nodes THEN "nodes"
        ELSE IF \E i \in 1..Len(self.nodes) :
                    LET theirs == other.nodes[NodeIdx(other.nodes, self.nodes[i].name)]
                    IN  \/ self.nodes[i].comments # theirs.comments
                        \/ Range1(self.nodes[i].attributes) # Range1(theirs.attributes)
             THEN "nodes payload"
        ELSE IF Range1(self.newsymbols) # Range1(other.newsymbols) THEN "new symbols"
        ELSE IF Range1(self.global_values) # Range1(other.global_values)
             THEN "global values"
        ELSE IF own_ids # other_ids THEN "messages by id"
        ELSE IF differing # <<>> THEN differing[1]
        ELSE IF self.comments # other.comments THEN "global comments"
        ELSE IF Range1(self.attrib_typedefs) # Range1(other.attrib_typedefs)
             THEN "attribute definitions"
        ELSE IF Range1(self.attrib_defaults) # Range1(other.attrib_defaults)
             THEN "attribute defaults"
        ELSE IF Range1(self.attributes) # Range1(other.attributes) THEN "global attributes"
        ELSE ""

(* The text Bus.diff returns for two versions, as the pieces that          *)
(* str.format puts together.                                               *)
VersionText(self, other) ==
    <<"version:\n < ", self.version, "\n > ", other.version, "\n">>

-----------------------------------------------------------------------------
(* Parser.  The text is a sequence of characters, n the number of          *)
(* characters read, line and col the position that errors report.  A rule  *)
(* is an operator from parser state to parser state: it leaves its result  *)
(* in val, or the exception it raises in err, with the line, the column    *)
(* and the message of a ParseError in eline, ecol and msg.                 *)

NewParser(t) ==
    [text |-> t, n |-> 0, line |-> 1, col |-> 0, val |-> <<>>, secs |-> <<>>,
     err |-> "", msg |-> "", eline |-> 0, ecol |-> 0, pc |-> "start"]

ParseError(p, m) ==
    [p EXCEPT !.err = "ParseError", !.msg = m, !.eline = p.line, !.ecol = p.col]

(* self.text[self.n] at or after the end of the text.                      *)
IndexError(p) == [p EXCEPT !.err = "IndexError"]

AtEnd(p) == p.n >= Len(p.text)

Cur(p) == p.text[p.n + 1]

Quote == "\""

Backslash == "\\"

Whitespace == {" ", "\f", "\r", "\t", "\n"}

Digits == <<"0", "1", "2", "3", "4", "5", "6", "7", "8", "9">>

Letters ==
    {"a", "b", "c", "d", "e", "f", "g", "h", "i", "j", "k", "l", "m", "n",
     "o", "p", "q", "r", "s", "t", "u", "v", "w", "x", "y", "z", "A", "B",
     "C", "D", "E", "F", "G", "H", "I", "J", "K", "L", "M", "N", "O", "P",
     "Q", "R", "S", "T", "U", "V", "W", "X", "Y", "Z"}

IdChars == Range1(Digits) \cup {"_"} \cup Letters

RECURSIVE eat_whitespace(_)
eat_whitespace(p) ==
    IF AtEnd(p) \/ Cur(p) \notin Whitespace THEN p
    ELSE eat_whitespace(
             [p EXCEPT !.n = @ + 1,
                       !.col = IF Cur(p) = " " THEN @ + 1
                               ELSE IF Cur(p) = "\n" THEN 0 ELSE @,
                       !.line = IF Cur(p) = "\n" THEN @ + 1 ELSE @])

charmatch(p, c) ==
    IF AtEnd(p) THEN ParseError(p, "Reached end while looking for")
    ELSE IF Cur(p) = c
    THEN [p EXCEPT !.n = @ + 1,
                   !.col = IF c = "\n" THEN 0 ELSE @ + 1,
                   !.line = IF c = "\n" THEN @ + 1 ELSE @]
    ELSE ParseError(p, "Expected, found")

(* The end of the longest run of characters of S from position n on.       *)
RECURSIVE Run(_, _, _)
Run(t, n, S) == IF n < Len(t) /\ t[n + 1] \in S THEN Run(t, n + 1, S) ELSE n

RECURSIVE IntOf(_)
IntOf(ds) ==
    IF ds = <<>> THEN 0
    ELSE 10 * IntOf(SubSeq(ds, 1, Len(ds) - 1))
         + (CHOOSE d \in 1..10 : Digits[d] = ds[Len(ds)]) - 1

(* Parser.sint: the pattern ^[-+]?[0-9]+ at the position.                  *)
sint(p) ==
    LET n0 == IF ~AtEnd(p) /\ Cur(p) \in {"-", "+"} THEN p.n + 1 ELSE p.n
        n1 == Run(p.text, n0, Range1(Digits))
        v  == IntOf(SubSeq(p.text, n0 + 1, n1))
    IN  IF n1 > n0
        THEN [p EXCEPT !.n = n1, !.col = @ + (n1 - p.n),
                       !.val = IF n0 > p.n /\ Cur(p) = "-" THEN 0 - v ELSE v]
        ELSE ParseError(p, "Expected a signed integer, found")

(* Parser.string, the loop after the opening quote.                        *)
RECURSIVE StringLoop(_, _)
StringLoop(p, s) ==
    IF AtEnd(p) THEN ParseError(p, "Reached end while parsing string")
    ELSE LET c  == Cur(p)
             p1 == IF c = "\n" THEN [p EXCEPT !.line = @ + 1, !.col = 0] ELSE p
             p2 == [p1 EXCEPT !.n = @ + 1, !.col = @ + 1]
         IN  IF c = Backslash THEN ParseError(p1, "Encounted backslash in string at")
             ELSE IF c = Quote THEN [p2 EXCEPT !.val = s]
             ELSE StringLoop(p2, Append(s, c))

string(p) ==
    IF AtEnd(p) THEN IndexError(p)
    ELSE IF Cur(p) # Quote THEN ParseError(p, "expected quote but found")
    ELSE StringLoop([p EXCEPT !.n = @ + 1, !.col = @ + 1], <<>>)

KwVERSION == <<"V", "E", "R", "S", "I", "O", "N">>

KwVAL_TABLE_ == <<"V", "A", "L", "_", "T", "A", "B", "L", "E", "_">>

KwNS_ == <<"N", "S", "_">>

(* A sections tuple that lists each keyword before the longer keywords     *)
(* that start with it.                                                     *)
sections_shortfirst ==
    << <<"B", "A", "_">>,
       <<"B", "A", "_", "D", "E", "F", "_">>,
       <<"B", "A", "_", "D", "E", "F", "_", "D", "E", "F", "_">>,
       <<"B", "O", "_">>,
       <<"B", "O", "_", "T", "X", "_", "B", "U", "_">>,
       <<"B", "S", "_">>,
       <<"B", "U", "_">>,
       <<"C", "M", "_">>,
       <<"E", "N", "V", "V", "A", "R", "_", "D", "A", "T", "A", "_">>,
       <<"E", "V", "_">>,
       <<"N", "S", "_">>,
       <<"S", "I", "G", "_", "G", "R", "O", "U", "P", "_">>,
       <<"S", "I", "G", "_", "T", "Y", "P", "E", "_", "R", "E", "F", "_">>,
       <<"S", "I", "G", "_", "V", "A", "L", "T", "Y", "P", "E", "_">>,
       <<"S", "G", "T", "Y", "P", "E", "_">>,
       <<"S", "G", "_", "M", "U", "L", "_", "V", "A", "L", "_">>,
       <<"V", "A", "L", "_">>,
       <<"V", "A", "L", "_", "T", "A", "B", "L", "E", "_">>,
       <<"V", "E", "R", "S", "I", "O", "N">> >>

(* Parser.sections, in the order of the source.                            *)
sections ==
    << <<"B", "A", "_", "D", "E", "F", "_", "D", "E", "F", "_">>,
       <<"B", "A", "_", "D", "E", "F", "_">>,
       <<"B", "A", "_">>,
       <<"B", "O", "_", "T", "X", "_", "B", "U", "_">>,
       <<"B", "O", "_">>,
       <<"B", "S", "_">>,
       <<"B", "U", "_">>,
       <<"C", "M", "_">>,
       <<"E", "N", "V", "V", "A", "R", "_", "D", "A", "T", "A", "_">>,
       <<"E", "V", "_">>,
       <<"N", "S", "_">>,
       <<"S", "I", "G", "_", "G", "R", "O", "U", "P", "_">>,
       <<"S", "I", "G", "_", "T", "Y", "P", "E", "_", "R", "E", "F", "_">>,
       <<"S", "I", "G", "_", "V", "A", "L", "T", "Y", "P", "E", "_">>,
       <<"S", "G", "T", "Y", "P", "E", "_">>,
       <<"S", "G", "_", "M", "U", "L", "_", "V", "A", "L", "_">>,
       <<"V", "A", "L", "_", "T", "A", "B", "L", "E", "_">>,
       <<"V", "A", "L", "_">>,
       <<"V", "E", "R", "S", "I", "O", "N">> >>

keywords ==
    { <<"V", "E", "R", "S", "I", "O", "N">>,
      <<"N", "S", "_">>,
      <<"N", "S", "_", "D", "E", "S", "C", "_">>,
      <<"C", "M", "_">>,
      <<"B", "A", "_", "D", "E", "F", "_">>,
      <<"B", "A", "_">>,
      <<"V", "A", "L", "_">>,
      <<"C", "A", "T", "_", "D", "E", "F", "_">>,
      <<"C", "A", "T", "_">>,
      <<"F", "I", "L", "T", "E", "R">>,
      <<"B", "A", "_", "D", "E", "F", "_", "D", "E", "F", "_">>,
      <<"E", "V", "_", "D", "A", "T", "A", "_">>,
      <<"E", "N", "V", "V", "A", "R", "_", "D", "A", "T", "A", "_">>,
      <<"S", "G", "T", "Y", "P", "E", "_">>,
      <<"S", "G", "T", "Y", "P", "E", "_", "V", "A", "L", "_">>,
      <<"B", "A", "_", "D", "E", "F", "_", "S", "G", "T", "Y", "P", "E", "_">>,
      <<"B", "A", "_", "S", "G", "T", "Y", "P", "E", "_">>,
      <<"S", "I", "G", "_", "T", "Y", "P", "E", "_", "R", "E", "F", "_">>,
      <<"V", "A", "L", "_", "T", "A", "B", "L", "E", "_">>,
      <<"S", "I", "G", "_", "G", "R", "O", "U", "P", "_">>,
      <<"S", "I", "G", "_", "V", "A", "L", "T", "Y", "P", "E", "_">>,
      <<"S", "I", "G", "T", "Y", "P", "E", "_", "V", "A", "L", "T", "Y", "P", "E", "_">>,
      <<"B", "O", "_", "T", "X", "_", "B", "U", "_">>,
      <<"B", "A", "_", "D", "E", "F", "_", "R", "E", "L", "_">>,
      <<"B", "A", "_", "R", "E", "L", "_">>,
      <<"B", "A", "_", "D", "E", "F", "_", "D", "E", "F", "_", "R", "E", "L", "_">>,
      <<"B", "U", "_", "S", "G", "_", "R", "E", "L", "_">>,
      <<"B", "U", "_", "E", "V", "_", "R", "E", "L", "_">>,
      <<"B", "U", "_", "B", "O", "_", "R", "E", "L", "_">>,
      <<"S", "G", "_", "M", "U", "L", "_", "V", "A", "L", "_">>,
      <<"B", "S", "_">>,
      <<"B", "U", "_">>,
      <<"B", "O", "_">>,
      <<"S", "G", "_">>,
      <<"E", "V", "_">>,
      <<"V", "E", "C", "T", "O", "R", "_", "_", "I", "N", "D", "E", "P", "E", "N", "D", "E", "N", "T", "_", "S", "I", "G", "_", "M", "S", "G">>,
      <<"V", "e", "c", "t", "o", "r", "_", "_", "X", "X", "X">> }

identifier(p, reserved) ==
    LET n1  == Run(p.text, p.n, IdChars)
        str == SubSeq(p.text, p.n + 1, n1)
    IN  IF str # <<>> /\ str[1] \notin Range1(Digits) /\ str \notin reserved
        THEN [p EXCEPT !.n = n1, !.col = @ + (n1 - p.n), !.val = str]
        ELSE IF str \in reserved
        THEN ParseError(p, "Identifier equals reserved word")
        ELSE ParseError(p, "Expected identifier, but found")

value_entry(p) ==
    LET value == sint(eat_whitespace(p))
        str   == string(eat_whitespace(value))
    IN  IF value.err # "" THEN value
        ELSE IF str.err # "" THEN str
        ELSE [str EXCEPT !.val = <<value.val, str.val>>]

(* Parser.any_number_of(self.value_entry): a ParseError of the rule ends   *)
(* the loop at the position before the rule, other exceptions pass.        *)
RECURSIVE any_number_of(_, _)
any_number_of(p, res) ==
    IF AtEnd(p) THEN [p EXCEPT !.val = res]
    ELSE LET res0 == value_entry(p)
         IN  IF res0.err = "ParseError" THEN [p EXCEPT !.val = res]
             ELSE IF res0.err # "" THEN res0
             ELSE any_number_of(res0, Append(res, res0.val))

section_body_VERSION(p) ==
    LET s == string(eat_whitespace(p))
    IN  IF s.err # "" THEN s ELSE [s EXCEPT !.val = <<"VERSION", s.val>>]

section_body_VAL_TABLE_(p) ==
    LET name  == identifier(eat_whitespace(p), keywords)
        table == any_number_of(eat_whitespace(name), <<>>)
        semi  == charmatch(eat_whitespace(table), ";")
    IN  IF name.err # "" THEN name
        ELSE IF table.err # "" THEN table
        ELSE IF semi.err # "" THEN semi
        ELSE [semi EXCEPT !.val = <<"VAL_TABLE_", name.val, table.val>>]

section_keyword(p) ==
    LET hits == SelectSeq(sections,
                    LAMBDA k : SubSeq(p.text, p.n + 1, Min(p.n + Len(k), Len(p.text))) = k)
    IN  IF hits = <<>> THEN ParseError(p, "Expected section keyword but found instead")
        ELSE [p EXCEPT !.n = @ + Len(hits[1]), !.col = @ + Len(hits[1]),
                       !.val = hits[1]]

getpos(p) == <<p.n, p.line, p.col>>

setpos(p, pos) == [p EXCEPT !.n = pos[1], !.line = pos[2], !.col = pos[3]]

(* The names section_body_NS_ takes for new symbols.                       *)
symnames ==
    { <<"B", "A", "_", "D", "E", "F", "_", "D", "E", "F", "_", "R", "E", "L", "_">>,
      <<"B", "A", "_", "D", "E", "F", "_", "D", "E", "F", "_">>,
      <<"B", "A", "_", "D", "E", "F", "_", "S", "G", "T", "Y", "P", "E", "_">>,
      <<"B", "A", "_", "D", "E", "F", "_", "R", "E", "L", "_">>,
      <<"B", "A", "_", "D", "E", "F", "_">>,
      <<"B", "A", "_", "R", "E", "L", "_">>,
      <<"B", "A", "_", "S", "G", "T", "Y", "P", "E", "_">>,
      <<"B", "A", "_">>,
      <<"B", "O", "_", "T", "X", "_", "B", "U", "_">>,
      <<"B", "U", "_", "S", "G", "_", "R", "E", "L", "_">>,
      <<"B", "U", "_", "E", "V", "_", "R", "E", "L", "_">>,
      <<"B", "U", "_", "B", "O", "_", "R", "E", "L", "_">>,
      <<"C", "M", "_">>,
      <<"C", "A", "T", "_", "D", "E", "F", "_">>,
      <<"C", "A", "T", "_">>,
      <<"E", "N", "V", "V", "A", "R", "_", "D", "A", "T", "A", "_">>,
      <<"E", "V", "_", "D", "A", "T", "A", "_">>,
      <<"F", "I", "L", "T", "E", "R">>,
      <<"N", "S", "_", "D", "E", "S", "C", "_">>,
      <<"S", "I", "G", "_", "G", "R", "O", "U", "P", "_">>,
      <<"S", "I", "G", "_", "T", "Y", "P", "E", "_", "R", "E", "F", "_">>,
      <<"S", "I", "G", "_", "V", "A", "L", "T", "Y", "P", "E", "_">>,
      <<"S", "I", "G", "T", "Y", "P", "E", "_", "V", "A", "L", "T", "Y", "P", "E", "_">>,
      <<"S", "G", "T", "Y", "P", "E", "_", "V", "A", "L", "_">>,
      <<"S", "G", "T", "Y", "P", "E", "_">>,
      <<"S", "G", "_", "M", "U", "L", "_", "V", "A", "L", "_">>,
      <<"V", "A", "L", "_", "T", "A", "B", "L", "E", "_">>,
      <<"V", "A", "L", "_">> }

(* The loop of section_body_NS_; stored_pos is the position before the     *)
(* last identifier.                                                        *)
RECURSIVE NS_loop(_, _, _)
NS_loop(p, list, stored_pos) ==
    IF AtEnd(p) THEN [p EXCEPT !.val = <<"NS_", list>>]
    ELSE LET w == eat_whitespace(p)
             s == identifier(w, {})
         IN  IF AtEnd(w) THEN IndexError(w)
             ELSE IF Cur(w) = ":"
             THEN IF list # <<>>
                  THEN [setpos(w, stored_pos) EXCEPT
                            !.val = <<"NS_", SubSeq(list, 1, Len(list) - 1)>>]
                  ELSE ParseError(w, "Expected reserved word, found")
             ELSE IF s.err # "" THEN s
             ELSE IF s.val \in symnames
             THEN NS_loop(s, Append(list, s.val), getpos(w))
             ELSE IF s.val \in keywords
             THEN [setpos(s, getpos(w)) EXCEPT !.val = <<"NS_", list>>]
             ELSE NS_loop(s, list, getpos(w))

section_body_NS_(p) ==
    LET w == eat_whitespace(p)
    IN  IF AtEnd(w) THEN IndexError(w)
        ELSE IF Cur(w) # ":" THEN ParseError(w, "Expected, found")
        ELSE NS_loop(eat_whitespace([w EXCEPT !.n = @ + 1, !.col = @ + 1]),
                     <<>>, getpos(w))

(* Parser.section: the rule of the keyword by its name.  ENVVAR_DATA_, EV_, *)
(* SIG_TYPE_REF_ and SGTYPE_ have no rule; the rules of the other keywords  *)
(* are left out, no text of the pieces below holds one of them.            *)
section(p) ==
    LET name == section_keyword(p)
    IN  IF name.err # "" THEN name
        ELSE IF name.val = KwVERSION THEN section_body_VERSION(name)
        ELSE IF name.val = KwVAL_TABLE_ THEN section_body_VAL_TABLE_(name)
        ELSE IF name.val = KwNS_ THEN section_body_NS_(name)
        ELSE ParseError(name, "Unimplemented section type encountered near")

(* One turn of the loop of Parser.start.                                   *)
StartLoop(p) ==
    LET res == section(p)
    IN  IF res.err # "" THEN res
        ELSE eat_whitespace([res EXCEPT !.secs = Append(@, res.val), !.val = <<>>])

assert_at_end(p) ==
    IF ~AtEnd(p) THEN ParseError(p, "Unrecognizable text remains from") ELSE p

(* Parser.parse as one function of the text.                               *)
RECURSIVE Start(_)
Start(p) == IF p.err # "" \/ AtEnd(p) THEN p ELSE Start(StartLoop(p))

parse(t) ==
    LET p == Start(eat_whitespace(NewParser(t)))
    IN  IF p.err # "" THEN p ELSE assert_at_end(p)

-----------------------------------------------------------------------------
(* Inputs: section lists as Parser.parse returns them.                     *)

MaxRepeat  == 2
MaxMsgs    == 2
MaxCM      == 2
MaxSignals == 3
MaxMulVal  == 2
MaxBA      == 2
MaxDefs    == 2
MaxGroups  == 2
MaxTables  == 2
MaxShuffle == 5

SigNames == <<"S1", "S2", "S3", "S4", "S5">>

CommentText == <<"c1", "c2", "c3", "c4">>

BSBodies == {<<>>, <<0, 1, 2>>, <<500, 1, 2>>}

BUBodies == {<<"N1">>, <<"N1", "N2", "N1">>}

Repeat(n, sec) == [i \in 1..n |-> sec]

SeqsUpTo(S, n) == UNION {[1..k -> S] : k \in 0..n}

sig_d(name, kind) ==
    [name |-> name, multiplex_value |-> kind[1], is_multiplexor |-> kind[2], size |-> 1]

Sec_BO_(id, sigs) ==
    <<"BO_", [id |-> id, name |-> "M", size |-> 8, transmitter |-> "N1",
              signals |-> sigs]>>

Preamble ==
    << <<"VERSION", "1.0">>, <<"NS_", <<"CM_">>>>, <<"BS_", <<>>>>,
       <<"BU_", <<"N1", "N2">>>> >>

(* Mandatory sections: zero to MaxRepeat of each kind, in either order.    *)
InputMandatory(n, bs, bu, rev) ==
    LET sl == Repeat(n[1], <<"VERSION", "1.0">>) \o Repeat(n[2], <<"NS_", <<"CM_">>>>)
              \o Repeat(n[3], <<"BS_", bs>>) \o Repeat(n[4], <<"BU_", bu>>)
              \o <<Sec_BO_(1, <<sig_d("S1", <<None, FALSE>>)>>)>>
    IN  IF rev THEN Reverse(sl) ELSE sl

(* Messages and comments.                                                  *)
CMScopes ==
    { <<"">>, <<"BU_", "N1">>, <<"BU_", "ZZ">>, <<"BO_", 1>>,
      <<"SG_", 1, "S1">>, <<"SG_", 1, "ZZ">>, <<"EV_", "E">> }

InputComments(ids, cms) ==
    Preamble
    \o [i \in 1..Len(ids) |-> Sec_BO_(ids[i], <<sig_d("S1", <<None, FALSE>>)>>)]
    \o [k \in 1..Len(cms) |-> <<"CM_", cms[k] \o <<CommentText[k]>>>>]

(* One message with multiplexors, multiplexed signals and SG_MUL_VAL_      *)
(* sections.  Every signal is one bit wide, so 0 and 1 are selector        *)
(* values in range and 2 is out of range.  The last signal may repeat the  *)
(* name of the one before it.                                              *)
SigKinds == { <<None, FALSE>>, <<None, TRUE>>, <<0, FALSE>>, <<0, TRUE>>, <<2, FALSE>> }

MulValRanges == { <<>>, << <<0, 0>>, <<1, 1>>, <<0, 0>> >> }

SignalList(ks, dup) ==
    [i \in 1..Len(ks) |->
        sig_d(IF dup /\ i = Len(ks) /\ i > 1 THEN SigNames[i - 1] ELSE SigNames[i],
              ks[i])]

(* SG_MUL_VAL_ sections for a message declared with signals sigs: every    *)
(* declared name as signal under every declared multiplexor name, and one  *)
(* section for each way the section can name something that is not there.  *)
MulValSecs(sigs) ==
    LET n == Len(sigs)
    IN  { <<"SG_MUL_VAL_", <<1, SigNames[i], sigs[j].name>>, r>> :
              i \in 1..n, j \in {h \in 1..n : sigs[h].is_multiplexor},
              r \in MulValRanges }
        \cup { <<"SG_MUL_VAL_", <<1, "ZZ", "S1">>, <<>>>>,
               <<"SG_MUL_VAL_", <<1, "S1", "ZZ">>, <<>>>>,
               <<"SG_MUL_VAL_", <<1, "S1", "S1">>, <<>>>>,
               <<"SG_MUL_VAL_", <<2, "S1", "S1">>, <<>>>> }

(* Attribute values, definitions, defaults and signal groups for one       *)
(* message 1 with the signals S1 and S2; 5 and 6 stand for two literals.   *)
BATargets ==
    { <<"">>, <<"BU_", "N1">>, <<"BU_", "ZZ">>, <<"BO_", 1>>, <<"BO_", 7>>,
      <<"SG_", 1, "S1">>, <<"SG_", 1, "ZZ">>, <<"SG_", 7, "S1">>, <<"EV_", "E">> }

BASecs ==
    { <<"BA_", "A1", d, 5>> : d \in BATargets }
    \cup { <<"BA_", "A1", d, 6>> :
               d \in {<<"">>, <<"BU_", "N1">>, <<"BO_", 1>>, <<"SG_", 1, "S1">>} }
    \cup { <<"BA_", "A2", <<"">>, 5>> }

DefSecs ==
    { <<"BA_DEF_", "", "A1", <<"INT", 0, 10>>>>,
      <<"BA_DEF_", "", "A1", <<"HEX", 0, 10>>>>,
      <<"BA_DEF_", "BO_", "A1", <<"STRING">>>> }
    \cup { <<"BA_DEF_DEF_", n, v>> : n \in {"A1", "A2"}, v \in {5, 6} }

GroupSecs ==
    { <<"SIG_GROUP_", 1, "G1", 1, <<"S1">>>>,
      <<"SIG_GROUP_", 1, "G1", 2, <<"S1", "S2", "S1">>>>,
      <<"SIG_GROUP_", 1, "G2", 1, <<"S2", "S1">>>>,
      <<"SIG_GROUP_", 1, "G1", 1, <<"S1", "ZZ">>>>,
      <<"SIG_GROUP_", 7, "G1", 1, <<"S1">>>> }

TableSecs ==
    { <<"VAL_TABLE_", "T1", <<>>>>,
      <<"VAL_TABLE_", "T1", <<<<1, "x">>, <<2, "y">>, <<1, "z">>>>>>,
      <<"VAL_TABLE_", "T2", <<<<2, "y">>, <<1, "z">>>>>> }

InputAttr(secs) ==
    Preamble
    \o <<Sec_BO_(1, <<sig_d("S1", <<None, FALSE>>), sig_d("S2", <<None, FALSE>>)>>)>>
    \o secs

(* Sections of several tags, two or more of some, of which the first      *)
(* MaxShuffle or all are put in any order; a last message may repeat the  *)
(* id 1.                                                                   *)
ShufflePool ==
    << Sec_BO_(1, <<sig_d("S1", <<None, FALSE>>)>>),
       <<"CM_", <<"BO_", 1, "c1">>>>,
       Sec_BO_(2, <<sig_d("S1", <<None, FALSE>>)>>),
       <<"CM_", <<"BO_", 2, "c2">>>>,
       <<"CM_", <<"BO_", 1, "c3">>>>,
       <<"BU_", <<"N1", "N2">>>>,
       <<"SIG_GROUP_", 1, "G1", 1, <<"S1">>>>,
       <<"VERSION", "1.0">>, <<"NS_", <<"CM_">>>>, <<"BS_", <<>>>> >>

InputShuffled(p, dup) ==
    [i \in 1..Len(ShufflePool) |->
        IF i \in DOMAIN p THEN ShufflePool[p[i]] ELSE ShufflePool[i]]
    \o (IF dup THEN <<Sec_BO_(1, <<sig_d("S2", <<None, FALSE>>)>>)>> ELSE <<>>)

InputMux(sigs, mv) == Preamble \o <<Sec_BO_(1, sigs)>> \o mv

-----------------------------------------------------------------------------
(* The program: Bus(seclist0), then Bus.dbc, Parser.parse and Bus on the   *)
(* result, then Bus.diff of the two.  pc is the place in Bus.__init__.     *)

InitInput ==
    \/ \E n \in [1..4 -> 0..MaxRepeat], bs \in BSBodies, bu \in BUBodies, rev \in BOOLEAN :
           seclist0 = InputMandatory(n, bs, bu, rev)
    \/ \E ids \in SeqsUpTo({1, 2}, MaxMsgs), cms \in SeqsUpTo(CMScopes, MaxCM) :
           seclist0 = InputComments(ids, cms)
    \/ \E ks \in SeqsUpTo(SigKinds, MaxSignals), dup \in BOOLEAN :
           \E mv \in SeqsUpTo(MulValSecs(SignalList(ks, dup)),
                              Min(MaxSignals + 1 - Len(ks), MaxMulVal)) :
               seclist0 = InputMux(SignalList(ks, dup), mv)
    \/ \E secs \in SeqsUpTo(BASecs, MaxBA) \cup SeqsUpTo(DefSecs, MaxDefs)
                    \cup SeqsUpTo(GroupSecs, MaxGroups)
                    \cup SeqsUpTo(TableSecs, MaxTables) :
           seclist0 = InputAttr(secs)
    \/ \E p \in Permutations(1..Min(MaxShuffle, Len(ShufflePool))), dup \in BOOLEAN :
           seclist0 = InputShuffled(p, dup)

Init ==
    /\ InitInput
    /\ bus = NewBus(seclist0)
    /\ cl = <<>>
    /\ pc = "VERSION"
    /\ text = <<>>
    /\ bus2 = NewBus(<<>>)
    /\ diffres = ""
    /\ parser = NewParser(<<>>)
    /\ rng = NoRanges

After(b, p) == IF b.err # "" THEN "raised" ELSE p

Straight(here, b, there) ==
    /\ pc = here
    /\ bus' = b
    /\ pc' = After(b, there)
    /\ UNCHANGED <<seclist0, cl, text, bus2, diffres, parser, rng>>

DoVERSION == Straight("VERSION", StepVERSION(bus), "BS_")

DoBS_ == Straight("BS_", StepBS_(bus), "BU_")

DoBU_ == Straight("BU_", StepBU_(bus), "NS_")

(* The VAL_TABLE_ step loops over its own sections and is passed over     *)
(* when there is none.                                                     *)
DoNS_ ==
    Straight("NS_", StepNS_(bus),
             IF \E i \in 1..Len(bus.seclist) : bus.seclist[i][1] = "VAL_TABLE_"
             THEN "VAL_TABLE_" ELSE "BO_")

(* The list of the caller after the VAL_TABLE_ step.  seclist is a shallow  *)
(* copy of seclist0, so tab[2].sort sorts the entry list that the section  *)
(* of the caller holds, for each table up to one whose name is reused.     *)
RECURSIVE SortInPlace(_, _)
SortInPlace(sl, seen) ==
    IF sl = <<>> THEN <<>>
    ELSE IF Head(sl)[1] # "VAL_TABLE_" THEN <<Head(sl)>> \o SortInPlace(Tail(sl), seen)
    ELSE IF Head(sl)[2] \in seen THEN sl
    ELSE << <<"VAL_TABLE_", Head(sl)[2], TableSort(Head(sl)[3])>> >>
         \o SortInPlace(Tail(sl), seen \cup {Head(sl)[2]})

DoVAL_TABLE_ ==
    /\ pc = "VAL_TABLE_"
    /\ bus' = StepVAL_TABLE_(bus)
    /\ seclist0' = SortInPlace(seclist0, {})
    /\ pc' = After(bus', "BO_")
    /\ UNCHANGED <<cl, text, bus2, diffres, parser, rng>>

DoBO_ == Straight("BO_", StepBO_(bus), "CM_")

Xtract(here, sec, loop, there) ==
    /\ pc = here
    /\ LET x == xtract_sec(bus.seclist, sec)
       IN  /\ cl' = x.xtr
           /\ bus' = [bus EXCEPT !.seclist = x.rest]
           /\ pc' = IF x.xtr = <<>> THEN there ELSE loop
    /\ UNCHANGED <<seclist0, text, bus2, diffres, parser, rng>>

Iterate(loop, b, there) ==
    /\ pc = loop
    /\ cl # <<>>
    /\ bus' = b
    /\ cl' = Tail(cl)
    /\ pc' = After(b, IF Tail(cl) = <<>> THEN there ELSE loop)
    /\ UNCHANGED <<seclist0, text, bus2, diffres, parser, rng>>

(* The steps between CM_ and the multiplex reconstruction only loop over   *)
(* their own sections: a step whose tag has no section changes nothing and *)
(* is passed over.                                                         *)
OptionalSteps == <<"BA_DEF_", "BA_DEF_DEF_", "BA_", "SIG_GROUP_">>

SkipTo(b, k) ==
    LET todo == {j \in k..Len(OptionalSteps) :
                    \E i \in 1..Len(b.seclist) : b.seclist[i][1] = OptionalSteps[j]}
    IN  IF todo = {} THEN "organize"
        ELSE OptionalSteps[CHOOSE j \in todo : \A h \in todo : j <= h]

XtractCM_ == Xtract("CM_", "CM_", "CM_loop", SkipTo(bus, 1))

DoCM_ == Iterate("CM_loop", CM_one(bus, Head(cl)), SkipTo(bus, 1))

XtractBA_DEF_ == Xtract("BA_DEF_", "BA_DEF_", "BA_DEF_loop", SkipTo(bus, 2))

DoBA_DEF_ == Iterate("BA_DEF_loop", BA_DEF_one(bus, Head(cl)), SkipTo(bus, 2))

XtractBA_DEF_DEF_ == Xtract("BA_DEF_DEF_", "BA_DEF_DEF_", "BA_DEF_DEF_loop", SkipTo(bus, 3))

DoBA_DEF_DEF_ == Iterate("BA_DEF_DEF_loop", BA_DEF_DEF_one(bus, Head(cl)), SkipTo(bus, 3))

XtractBA_ == Xtract("BA_", "BA_", "BA_loop", SkipTo(bus, 4))

DoBA_ == Iterate("BA_loop", BA_one(bus, Head(cl)), SkipTo(bus, 4))

XtractSIG_GROUP_ == Xtract("SIG_GROUP_", "SIG_GROUP_", "SIG_GROUP_loop", "organize")

DoSIG_GROUP_ == Iterate("SIG_GROUP_loop", SIG_GROUP_one(bus, Head(cl)), "organize")

DoOrganize == Straight("organize", StepOrganize(bus), "SG_MUL_VAL_")

XtractSG_MUL_VAL_ == Xtract("SG_MUL_VAL_", "SG_MUL_VAL_", "SG_MUL_VAL_loop", "nonmuxed")

DoSG_MUL_VAL_ == Iterate("SG_MUL_VAL_loop", SG_MUL_VAL_one(bus, Head(cl)), "nonmuxed")

DoNonmuxed == Straight("nonmuxed", BusSteps(bus, 14), "built")

Serialize ==
    /\ pc = "built"
    /\ text' = dbc(bus)
    /\ pc' = "serialized"
    /\ UNCHANGED <<seclist0, bus, cl, bus2, diffres, parser, rng>>

Rebuild ==
    /\ pc = "serialized"
    /\ bus2' = BusInit(text)
    /\ pc' = IF bus2'.err # "" THEN "reraised" ELSE "rebuilt"
    /\ UNCHANGED <<seclist0, bus, cl, text, diffres, parser, rng>>

Diff ==
    /\ pc = "rebuilt"
    /\ diffres' = Bus_diff(bus, bus2)
    /\ pc' = "diffed"
    /\ UNCHANGED <<seclist0, bus, cl, text, bus2, parser, rng>>

Next ==
    \/ DoVERSION
    \/ DoBS_
    \/ DoBU_
    \/ DoNS_
    \/ DoVAL_TABLE_
    \/ DoBO_
    \/ XtractCM_
    \/ DoCM_
    \/ XtractBA_DEF_
    \/ DoBA_DEF_
    \/ XtractBA_DEF_DEF_
    \/ DoBA_DEF_DEF_
    \/ XtractBA_
    \/ DoBA_
    \/ XtractSIG_GROUP_
    \/ DoSIG_GROUP_
    \/ DoOrganize
    \/ XtractSG_MUL_VAL_
    \/ DoSG_MUL_VAL_
    \/ DoNonmuxed
    \/ Serialize
    \/ Rebuild
    \/ Diff

Spec == Init /\ [][Next]_vars

TypeOK ==
    /\ pc \in {"VERSION", "BS_", "BU_", "NS_", "BO_", "CM_", "CM_loop", "organize",
               "VAL_TABLE_", "BA_DEF_", "BA_DEF_loop", "BA_DEF_DEF_", "BA_DEF_DEF_loop",
               "BA_", "BA_loop", "SIG_GROUP_", "SIG_GROUP_loop",
               "SG_MUL_VAL_", "SG_MUL_VAL_loop", "nonmuxed", "built", "raised",
               "serialized", "rebuilt", "reraised", "diffed"}
    /\ bus.err \in {"", "DatabaseError", "TypeError", "ValueError", "Exception",
                    "UnboundLocalError", "NameError"}

-----------------------------------------------------------------------------
(* Vocabulary of the properties.                                           *)

(* Bus(seclist0) returned: the constructor ran to its end without raising. *)
Built == pc \in {"built", "serialized", "rebuilt", "reraised", "diffed"}

Count(sl, tag) == Cardinality({i \in 1..Len(sl) : sl[i][1] = tag})

HeapIdx(msg) == 1..Len(msg.heap)

TopLevel(msg) == Range1(msg.signals)

(* The signals that have signal o in their switch.                         *)
Parents(msg, o) ==
    {m \in HeapIdx(msg) : \E e \in 1..Len(msg.heap[m].switch) : msg.heap[m].switch[e][2] = o}

Children(msg, m) == {msg.heap[m].switch[e][2] : e \in 1..Len(msg.heap[m].switch)}

(* The signals reachable from the top-level list through switches.         *)
RECURSIVE ReachFrom(_, _, _)
ReachFrom(msg, S, fuel) ==
    LET T == S \cup UNION {Children(msg, m) : m \in S}
    IN  IF T = S \/ fuel = 0 THEN S ELSE ReachFrom(msg, T, fuel - 1)

Reachable(msg) == ReachFrom(msg, TopLevel(msg), Len(msg.heap))

-----------------------------------------------------------------------------
(* C1: round trip.  Whenever Bus(parse(t)) succeeds, building a second Bus *)
(* from parse(first.dbc()) succeeds too, and first.diff(second) is the     *)
(* empty string.                                                           *)
RoundTrip ==
    /\ pc # "reraised"
    /\ pc = "diffed" => diffres = ""

(* C2: multiplex closure.  In a built Bus every signal with a multiplex    *)
(* value is in the switch of exactly one signal of its message.            *)
MultiplexClosure ==
    Built => \A i \in 1..Len(bus.messages) :
                 LET msg == bus.messages[i]
                 IN  \A o \in HeapIdx(msg) :
                         msg.heap[o].multiplex_value # None
                             => Cardinality(Parents(msg, o)) = 1

(* C3: orphan check.  The step after the SG_MUL_VAL_ sections raises       *)
(* DatabaseError "signals with unspecified multiplexor" exactly when some  *)
(* top-level signal of some message has a multiplex value, and otherwise   *)
(* the Bus is built; so no built Bus has such a signal at top level.       *)
Orphans(b) ==
    {<<i, o>> \in UNION {{i} \X TopLevel(b.messages[i]) : i \in 1..Len(b.messages)} :
        b.messages[i].heap[o].multiplex_value # None}

OrphanCheck ==
    [][pc = "nonmuxed" =>
          IF Orphans(bus) # {}
          THEN /\ pc' = "raised"
               /\ bus'.err = "DatabaseError"
               /\ bus'.errmsg = "signals with unspecified multiplexor"
               /\ Len(bus'.errargs) = Cardinality(Orphans(bus))
          ELSE /\ pc' = "built"
               /\ bus'.err = ""
               /\ Orphans(bus') = {}]_vars

OrphanCheckWitness ==
    /\ pc = "raised"
    /\ bus.errmsg = "signals with unspecified multiplexor"
    /\ Orphans(bus) # {}

(* C4: signal uniqueness.  In every message of a built Bus, every signal   *)
(* at top level or reachable through switches is the one signals_dict      *)
(* returns for its name, and every signal in signals_dict is at top level  *)
(* or reachable through switches.                                          *)
SignalUniqueness ==
    Built => \A i \in 1..Len(bus.messages) :
                 LET msg == bus.messages[i]
                     d   == msg.signals_dict
                 IN  /\ \A o \in HeapIdx(msg) : DictGet(d, msg.heap[o].name) = o
                     /\ \A o \in Reachable(msg) : DictGet(d, msg.heap[o].name) = o
                     /\ \A k \in 1..Len(d) : d[k][2] \in Reachable(msg)

(* C5: single-multiplexor reconstruction.  For a message whose top-level  *)
(* signals hold exactly one multiplexor mux: if every multiplex value v    *)
(* satisfies 0 <= v < 2^(mux.numbits), the step appends (Range(v, v), s)   *)
(* to mux's switch for each multiplexed s in order, leaves every other     *)
(* switch alone and leaves at top level exactly the signals without a      *)
(* multiplex value, in their original order; if some v is outside, the     *)
(* step raises DatabaseError.  A message with zero or several              *)
(* multiplexors is left as it was.                                         *)
TopMuxes(msg) == {o \in TopLevel(msg) : msg.heap[o].is_multiplexor}

TopMuxed(msg) == SelectSeq(msg.signals, LAMBDA o : msg.heap[o].multiplex_value # None)

InSelectorRange(msg, mux, o) ==
    LET v == msg.heap[o].multiplex_value
    IN  0 <= v /\ v < Pow2(msg.heap[mux].numbits)

SingleMultiplexor ==
    [][pc = "organize" =>
        /\ (\E i \in 1..Len(bus.messages) :
                LET msg == bus.messages[i]
                IN  /\ Cardinality(TopMuxes(msg)) = 1
                    /\ \E mux \in TopMuxes(msg), o \in Range1(TopMuxed(msg)) :
                           ~InSelectorRange(msg, mux, o))
           => (bus'.err = "DatabaseError" /\ pc' = "raised")
        /\ \A i \in 1..Len(bus.messages) :
               LET msg   == bus.messages[i]
                   after == bus'.messages[i]
                   muxed == TopMuxed(msg)
               IN  /\ Len(bus'.messages) = Len(bus.messages)
                   /\ Cardinality(TopMuxes(msg)) # 1 => after = msg
                   /\ (Cardinality(TopMuxes(msg)) = 1 /\ bus'.err = "")
                      => \E mux \in TopMuxes(msg) :
                            /\ \A o \in Range1(muxed) : InSelectorRange(msg, mux, o)
                            /\ after.signals =
                                 SelectSeq(msg.signals,
                                     LAMBDA o : msg.heap[o].multiplex_value = None)
                            /\ after.heap[mux].switch =
                                 msg.heap[mux].switch \o
                                 [k \in 1..Len(muxed) |->
                                     <<<<msg.heap[muxed[k]].multiplex_value,
                                         msg.heap[muxed[k]].multiplex_value>>, muxed[k]>>]
                            /\ \A o \in HeapIdx(msg) \ {mux} :
                                   after.heap[o] = msg.heap[o]
                            /\ after.signals_dict = msg.signals_dict]_vars

SingleMultiplexorWitness ==
    /\ pc = "SG_MUL_VAL_"
    /\ \E i \in 1..Len(bus.messages) :
           LET msg == bus.messages[i]
           IN  /\ Len(msg.signals) = 2
               /\ Len(msg.heap) = 3
               /\ \E m \in HeapIdx(msg) : Len(msg.heap[m].switch) = 1

(* C6: SG_MUL_VAL_ step.  The sections are taken in input order after the  *)
(* reconstruction.  A section raises DatabaseError unless its message id   *)
(* is defined, both names are in signals_dict and the named multiplexor    *)
(* has is_multiplexor; otherwise, if the named signal is at top level it   *)
(* is removed from there and every listed range is in the multiplexor's    *)
(* switch with it afterwards, and if it is not at top level the section    *)
(* raises DatabaseError.                                                   *)
MulValNamesOK(b, c) ==
    /\ MsgHas(b.messages, c[2][1])
    /\ LET msg == b.messages[MsgIdx(b.messages, c[2][1])]
       IN  /\ DictHas(msg.signals_dict, c[2][2])
           /\ DictHas(msg.signals_dict, c[2][3])
           /\ msg.heap[DictGet(msg.signals_dict, c[2][3])].is_multiplexor

SgMulValStep ==
    [][/\ pc = "SG_MUL_VAL_" =>
            cl' = SelectSeq(seclist0, LAMBDA t : t[1] = "SG_MUL_VAL_")
       /\ pc = "SG_MUL_VAL_loop" =>
            LET c == Head(cl)
            IN  IF ~MulValNamesOK(bus, c)
                THEN bus'.err = "DatabaseError" /\ pc' = "raised"
                ELSE LET mi    == MsgIdx(bus.messages, c[2][1])
                         msg   == bus.messages[mi]
                         after == bus'.messages[mi]
                         sig   == DictGet(msg.signals_dict, c[2][2])
                         mux   == DictGet(msg.signals_dict, c[2][3])
                     IN  IF sig \in TopLevel(msg)
                         THEN /\ bus'.err = ""
                              /\ after.signals = SelectSeq(msg.signals, LAMBDA o : o # sig)
                              /\ \A k \in 1..Len(c[3]) :
                                     <<c[3][k], sig>> \in Range1(after.heap[mux].switch)
                              /\ Range1(after.heap[mux].switch) =
                                     Range1(msg.heap[mux].switch)
                                     \cup {<<c[3][k], sig>> : k \in 1..Len(c[3])}
                              /\ \A o \in HeapIdx(msg) \ {mux} :
                                     after.heap[o] = msg.heap[o]
                         ELSE /\ bus'.err = "DatabaseError"
                              /\ bus'.errmsg = "multiplexed be more than one multiplexor"
                              /\ pc' = "raised"]_vars

SgMulValStepWitness ==
    /\ pc = "raised"
    /\ bus.errmsg = "multiplexed be more than one multiplexor"
    /\ \E i \in 1..Len(bus.messages) :
           LET msg == bus.messages[i]
           IN  \E m \in HeapIdx(msg) : \E e \in 1..Len(msg.heap[m].switch) :
                   msg.heap[m].switch[e][1] = <<1, 1>>

(* C7: signal invariant.  In a built Bus no signal has both is_multiplexor *)
(* and a multiplex value, and no signal is in its own switch.              *)
SignalInvariant ==
    Built => \A i \in 1..Len(bus.messages) :
                 LET msg == bus.messages[i]
                 IN  \A o \in HeapIdx(msg) :
                         /\ msg.heap[o].is_multiplexor
                                => msg.heap[o].multiplex_value = None
                         /\ o \notin Children(msg, o)

(* C8: mandatory sections.  Construction raises DatabaseError whenever the *)
(* input does not hold exactly one VERSION, one BS_ and one BU_ section:   *)
(* the error names the first of the three, in that order and wherever the  *)
(* sections stand in the input, whose count is not one ("missing section"  *)
(* for none, "more than one section" for several), and no later step is    *)
(* entered.  Once the BS_ step is passed an empty body has given baudrate  *)
(* None and btr None, any other body its three numbers, so baudrate and    *)
(* btr are both present or both absent.                                    *)
Mandatory == <<"VERSION", "BS_", "BU_">>

BadMandatory == {k \in 1..Len(Mandatory) : Count(seclist0, Mandatory[k]) # 1}

FirstBad == CHOOSE k \in BadMandatory : \A j \in BadMandatory : k <= j

EarlySteps == <<{"VERSION"}, {"VERSION", "BS_"}, {"VERSION", "BS_", "BU_"}>>

BSBody == SelectSeq(seclist0, LAMBDA t : t[1] = "BS_")[1][2]

MandatorySections ==
    /\ BadMandatory # {} =>
          /\ pc \in EarlySteps[FirstBad] \cup {"raised"}
          /\ pc = "raised" =>
                /\ bus.err = "DatabaseError"
                /\ bus.errargs = <<Mandatory[FirstBad]>>
                /\ bus.errmsg = IF Count(seclist0, Mandatory[FirstBad]) = 0
                                THEN "missing section"
                                ELSE "more than one section"
    /\ BadMandatory = {} /\ pc = "raised" =>
          ~(/\ bus.errmsg \in {"missing section", "more than one section"}
            /\ bus.errargs[1] \in Range1(Mandatory))
    /\ ((BadMandatory = {} \/ FirstBad = 3) /\ pc \notin EarlySteps[2]) =>
          /\ BSBody = <<>> => bus.baudrate = None /\ bus.btr = <<>>
          /\ BSBody # <<>> => /\ bus.baudrate = BSBody[1]
                              /\ bus.btr = <<BSBody[2], BSBody[3]>>
          /\ (bus.baudrate = None) <=> (bus.btr = <<>>)

MandatorySectionsWitness ==
    /\ pc = "raised"
    /\ bus.errmsg = "more than one section"
    /\ bus.errargs = <<"BS_">>
    /\ Count(seclist0, "BU_") = 0
    /\ seclist0[Len(seclist0)][1] = "VERSION"

(* C9: duplicate message id.  When the BO_ step is entered and two BO_     *)
(* sections carry the same id, construction raises DatabaseError naming    *)
(* that id and no Bus is produced; otherwise each BO_ section gives one    *)
(* Message under its id, and the messages stand in the input order of the  *)
(* BO_ sections.                                                           *)
BOSecs == SelectSeq(seclist0, LAMBDA t : t[1] = "BO_")

DupAt == {k \in 1..Len(BOSecs) : \E j \in 1..(k - 1) : BOSecs[j][2].id = BOSecs[k][2].id}

DuplicateMessageId ==
    [][pc = "BO_" =>
          IF DupAt # {}
          THEN /\ pc' = "raised"
               /\ bus'.err = "DatabaseError"
               /\ bus'.errmsg = "multiple definitions of message"
               /\ bus'.errargs[1] =
                      BOSecs[CHOOSE k \in DupAt : \A j \in DupAt : k <= j][2].id
          ELSE /\ bus'.err = ""
               /\ Len(bus'.messages) = Len(BOSecs)
               /\ \A k \in 1..Len(BOSecs) :
                      /\ bus'.messages[k].id = BOSecs[k][2].id
                      /\ bus'.messages[k].name = BOSecs[k][2].name
                      /\ Len(bus'.messages[k].heap) = Len(BOSecs[k][2].signals)]_vars

DuplicateMessageIdWitness ==
    /\ pc = "raised"
    /\ bus.errmsg = "multiple definitions of message"
    /\ bus.errargs[1] = 2

(* C10: CM_ step.  Every CM_ section appends its comment to the comments   *)
(* of the object it names (bus, node, message, signal of a message); a     *)
(* section naming an undefined node, message id or (message id, signal     *)
(* name) raises DatabaseError, and so does a section with EV_ scope.       *)
CommentStep ==
    [][pc = "CM_loop" =>
          LET c  == Head(cl)[2]
              ct == c[1]
              Fails == bus'.err = "DatabaseError" /\ pc' = "raised"
          IN  /\ ct = "" =>
                    bus' = [bus EXCEPT !.comments = Append(@, c[2])]
              /\ ct = "BU_" =>
                    IF NodeHas(bus.nodes, c[2])
                    THEN bus' = [bus EXCEPT
                             !.nodes[NodeIdx(bus.nodes, c[2])].comments = Append(@, c[3])]
                    ELSE Fails
              /\ ct = "BO_" =>
                    IF MsgHas(bus.messages, c[2])
                    THEN bus' = [bus EXCEPT
                             !.messages[MsgIdx(bus.messages, c[2])].comments =
                                 Append(@, c[3])]
                    ELSE Fails
              /\ ct = "SG_" =>
                    IF /\ MsgHas(bus.messages, c[2])
                       /\ DictHas(bus.messages[MsgIdx(bus.messages, c[2])].signals_dict,
                                  c[3])
                    THEN LET mi == MsgIdx(bus.messages, c[2])
                             o  == DictGet(bus.messages[mi].signals_dict, c[3])
                         IN  bus' = [bus EXCEPT
                                 !.messages[mi].heap[o].comments = Append(@, c[4])]
                    ELSE Fails
              /\ ct = "EV_" => Fails]_vars

(* C11: BA_ step.  Every BA_ section stores its value under its name in    *)
(* the attributes of its target (bus, node, message, signal of a message); *)
(* a name already stored for the target, an undefined node, message or     *)
(* signal, and an EV_ target each raise DatabaseError.                     *)
Stored(before, after, name, val) ==
    IF DictHas(before, name)
    THEN bus'.err = "DatabaseError" /\ pc' = "raised"
    ELSE bus'.err = "" /\ DictHas(after, name) /\ DictGet(after, name) = val

AttributeStep ==
    [][pc = "BA_loop" =>
          LET c     == Head(cl)
              name  == c[2]
              d     == c[3]
              val   == c[4]
              ct    == d[1]
              Fails == bus'.err = "DatabaseError" /\ pc' = "raised"
          IN  /\ ct = "" => Stored(bus.attributes, bus'.attributes, name, val)
              /\ ct = "BU_" =>
                    IF ~NodeHas(bus.nodes, d[2]) THEN Fails
                    ELSE LET ni == NodeIdx(bus.nodes, d[2])
                         IN  Stored(bus.nodes[ni].attributes,
                                    bus'.nodes[ni].attributes, name, val)
              /\ ct = "BO_" =>
                    IF ~MsgHas(bus.messages, d[2]) THEN Fails
                    ELSE LET mi == MsgIdx(bus.messages, d[2])
                         IN  Stored(bus.messages[mi].attributes,
                                    bus'.messages[mi].attributes, name, val)
              /\ ct = "SG_" =>
                    IF \/ ~MsgHas(bus.messages, d[2])
                       \/ ~DictHas(bus.messages[MsgIdx(bus.messages, d[2])].signals_dict,
                                   d[3])
                    THEN Fails
                    ELSE LET mi == MsgIdx(bus.messages, d[2])
                             o  == DictGet(bus.messages[mi].signals_dict, d[3])
                         IN  Stored(bus.messages[mi].heap[o].attributes,
                                    bus'.messages[mi].heap[o].attributes, name, val)
              /\ ct = "EV_" => Fails]_vars

(* C12: BA_DEF_DEF_ step.  Every BA_DEF_DEF_ section registers             *)
(* attrib_defaults[name] = value; a section whose name is already          *)
(* registered raises DatabaseError, no other kind, and no Bus is produced. *)
DefaultStep ==
    [][pc = "BA_DEF_DEF_loop" =>
          LET c == Head(cl)
          IN  IF DictHas(bus.attrib_defaults, c[2])
              THEN bus'.err = "DatabaseError" /\ pc' = "raised"
              ELSE /\ bus'.err = ""
                   /\ bus'.attrib_defaults = Append(bus.attrib_defaults, <<c[2], c[3]>>)]_vars

(* C13: SIG_GROUP_ step.  Every SIG_GROUP_ section registers, under its    *)
(* name in the message's signal_groups, a group with its repetition count  *)
(* and its listed names in order without repeats; an undefined message id, *)
(* a group name already registered for the message, and a listed name      *)
(* that is no signal of the message each raise DatabaseError.              *)
GroupStep ==
    [][pc = "SIG_GROUP_loop" =>
          LET c     == Head(cl)
              Fails == bus'.err = "DatabaseError" /\ pc' = "raised"
          IN  IF ~MsgHas(bus.messages, c[2]) THEN Fails
              ELSE LET mi  == MsgIdx(bus.messages, c[2])
                       msg == bus.messages[mi]
                   IN  IF \/ DictHas(msg.signal_groups, c[3])
                          \/ \E k \in 1..Len(c[5]) : ~DictHas(msg.signals_dict, c[5][k])
                       THEN Fails
                       ELSE /\ bus'.err = ""
                            /\ bus'.messages[mi].signal_groups =
                                  Append(msg.signal_groups,
                                         <<c[3], [n |-> c[4], names |-> FromKeys(c[5])]>>)]_vars

-----------------------------------------------------------------------------
(* Pairs of buses for Bus.diff.  Both section lists are one database with  *)
(* some of its parts varied: every name of Variations changes the part     *)
(* that one check of Bus.diff or Message.diff looks at.                    *)

MaxVary == 2

Variations ==
    { "version", "nobs", "baudrate", "btr1", "btr2", "nodes", "nodecomment",
      "newsymbols", "table", "msgids", "msgname", "msgsize", "transmitter",
      "signames", "sigline", "msgcomment", "msgattr", "msg2name", "groups",
      "groupsigs", "grouporder", "groupn", "comment", "typedef", "default",
      "attr" }

PairInput(v) ==
    LET has(x)  == x \in v
        opt(x, secs) == IF has(x) THEN secs ELSE <<>>
        plain(n, size) == [name |-> n, multiplex_value |-> None,
                           is_multiplexor |-> FALSE, size |-> size]
        sigs    == <<plain("S1", IF has("sigline") THEN 2 ELSE 1), plain("S2", 1)>>
                   \o opt("signames", <<plain("S3", 1)>>)
        msg1    == <<"BO_", [id |-> 1,
                             name |-> IF has("msgname") THEN "Mx" ELSE "M",
                             size |-> IF has("msgsize") THEN 4 ELSE 8,
                             transmitter |-> IF has("transmitter") THEN "N2" ELSE "N1",
                             signals |-> sigs]>>
        msg2    == <<"BO_", [id |-> 2,
                             name |-> IF has("msg2name") THEN "Mx" ELSE "M",
                             size |-> 8, transmitter |-> "N1",
                             signals |-> <<plain("S1", 1)>>]>>
        bs      == IF has("nobs") THEN <<>>
                   ELSE <<IF has("baudrate") THEN 250 ELSE 500,
                          IF has("btr1") THEN 3 ELSE 1,
                          IF has("btr2") THEN 4 ELSE 2>>
        g1      == IF has("groupsigs") THEN <<"S1">>
                   ELSE IF has("grouporder") THEN <<"S2", "S1">>
                   ELSE <<"S1", "S2">>
    IN  << <<"VERSION", IF has("version") THEN "b" ELSE "a">>,
           <<"NS_", <<"CM_">> \o opt("newsymbols", <<"BA_">>)>>,
           <<"BS_", bs>>,
           <<"BU_", <<"N1", "N2">> \o opt("nodes", <<"N3">>)>> >>
        \o opt("table", << <<"VAL_TABLE_", "T1", <<<<1, "x">>>>>> >>)
        \o <<msg1>> \o (IF has("msgids") THEN <<>> ELSE <<msg2>>)
        \o opt("comment", << <<"CM_", <<"", "c1">>>> >>)
        \o opt("nodecomment", << <<"CM_", <<"BU_", "N1", "c2">>>> >>)
        \o opt("msgcomment", << <<"CM_", <<"BO_", 1, "c3">>>> >>)
        \o opt("typedef", << <<"BA_DEF_", "", "A1", <<"INT", 0, 10>>>> >>)
        \o opt("default", << <<"BA_DEF_DEF_", "A1", 5>> >>)
        \o opt("attr", << <<"BA_", "A1", <<"">>, 5>> >>)
        \o opt("msgattr", << <<"BA_", "A1", <<"BO_", 1>>, 5>> >>)
        \o << <<"SIG_GROUP_", 1, "G1", IF has("groupn") THEN 2 ELSE 1, g1>> >>
        \o opt("groups", << <<"SIG_GROUP_", 1, "G2", 1, <<"S1">>>> >>)

InitPair ==
    /\ \E a \in Variations \cup {"none"} :
           seclist0 = PairInput({a})
    /\ \E vs \in [1..MaxVary -> Variations \cup {"none"}] :
           text = PairInput(Range1(vs))
    /\ bus = NewBus(seclist0)
    /\ bus2 = NewBus(text)
    /\ cl = <<>>
    /\ pc = "pair"
    /\ diffres = ""
    /\ parser = NewParser(<<>>)
    /\ rng = NoRanges

(* b1 = Bus(seclist0) and b2 = Bus(text).                                  *)
BuildPair ==
    /\ pc = "pair"
    /\ bus' = BusInit(seclist0)
    /\ bus2' = BusInit(text)
    /\ pc' = IF bus'.err = "" /\ bus2'.err = "" THEN "paired" ELSE "raised"
    /\ UNCHANGED <<seclist0, cl, text, diffres, parser, rng>>

(* b1.diff(b2).                                                            *)
DiffPair ==
    /\ pc = "paired"
    /\ diffres' = Bus_diff(bus, bus2)
    /\ pc' = "pairdiffed"
    /\ UNCHANGED <<seclist0, bus, cl, text, bus2, parser, rng>>

NextPair == BuildPair \/ DiffPair

SpecPair == InitPair /\ [][NextPair]_vars

PairBuilt == pc = "pairdiffed"
-----------------------------------------------------------------------------
(* C16: Bus.diff of a built bus with itself is empty, Bus.diff of two     *)
(* built buses is empty in one direction exactly if it is empty in the    *)
(* other, and no call raises, also when BS_ is empty in one bus only.     *)
DiffSymmetry ==
    pc = "pairdiffed" =>
        /\ Bus_diff(bus, bus) = ""
        /\ Bus_diff(bus2, bus2) = ""
        /\ (diffres = "") <=> (Bus_diff(bus2, bus) = "")
        /\ "TypeError" \notin {diffres, Bus_diff(bus2, bus)}

DiffSymmetryWitness ==
    /\ pc = "pairdiffed"
    /\ bus.btr = <<>> /\ bus2.btr # <<>>
    /\ diffres # "" /\ Bus_diff(bus2, bus) # ""

(* The components of two messages and of two buses in the order of        *)
(* Message.diff and Bus.diff, each with whether the two differ.            *)
GroupDiffers(g, h) == g.n # h.n \/ Range1(g.names) # Range1(h.names)

MessageComponents(m, o) ==
    LET names  == DictKeys(m.signals_dict) \cap DictKeys(o.signals_dict)
        groups == DictKeys(m.signal_groups) \cap DictKeys(o.signal_groups)
    IN  << <<"message id", m.id # o.id>>,
           <<"message name", m.name # o.name>>,
           <<"message size", m.size # o.size>>,
           <<"transmitters", Range1(m.transmitters) # Range1(o.transmitters)>>,
           <<"signals", DictKeys(m.signals_dict) # DictKeys(o.signals_dict)>>,
           <<"signal", \E n \in names :
                 Signal_dbc(m.heap[DictGet(m.signals_dict, n)])
                     # Signal_dbc(o.heap[DictGet(o.signals_dict, n)])>>,
           <<"comments", m.comments # o.comments>>,
           <<"attributes", Range1(m.attributes) # Range1(o.attributes)>>,
           <<"signal groups", DictKeys(m.signal_groups) # DictKeys(o.signal_groups)>>,
           <<"signal group", \E g \in groups :
                 GroupDiffers(DictGet(m.signal_groups, g), DictGet(o.signal_groups, g))>> >>

BusComponents(b1, b2) ==
    LET Btr(b, i) == IF b.btr = <<>> THEN None ELSE b.btr[i]
        Names(b)  == {b.nodes[i].name : i \in 1..Len(b.nodes)}
        Node(b, n) == b.nodes[NodeIdx(b.nodes, n)]
        Ids(b)    == {b.messages[i].id : i \in 1..Len(b.messages)}
        common    == SelectSeq(b1.messages, LAMBDA m : m.id \in Ids(b2))
    IN  << <<"version", b1.version # b2.version>>,
           <<"baudrate", b1.baudrate # b2.baudrate>>,
           <<"btr1", Btr(b1, 1) # Btr(b2, 1)>>,
           <<"btr2", Btr(b1, 2) # Btr(b2, 2)>>,
           <<"nodes", Names(b1) # Names(b2)>>,
           <<"nodes payload", \E n \in Names(b1) \cap Names(b2) :
                 \/ Node(b1, n).comments # Node(b2, n).comments
                 \/ Range1(Node(b1, n).attributes) # Range1(Node(b2, n).attributes)>>,
           <<"new symbols", Range1(b1.newsymbols) # Range1(b2.newsymbols)>>,
           <<"global values", Range1(b1.global_values) # Range1(b2.global_values)>>,
           <<"messages by id", Ids(b1) # Ids(b2)>> >>
        \o Flatten([k \in 1..Len(common) |->
               MessageComponents(common[k],
                                 b2.messages[MsgIdx(b2.messages, common[k].id)])])
        \o << <<"global comments", b1.comments # b2.comments>>,
              <<"attribute definitions",
                  Range1(b1.attrib_typedefs) # Range1(b2.attrib_typedefs)>>,
              <<"attribute defaults",
                  Range1(b1.attrib_defaults) # Range1(b2.attrib_defaults)>>,
              <<"global attributes", Range1(b1.attributes) # Range1(b2.attributes)>> >>

FirstDiffering(cs) ==
    LET hits == {i \in 1..Len(cs) : cs[i][2]}
    IN  IF hits = {} THEN ""
        ELSE cs[CHOOSE i \in hits : \A j \in hits : i <= j][1]

(* C17: Bus.diff reports the first component, in the order of Bus.diff    *)
(* and Message.diff, in which the two buses differ, and nothing when they *)
(* differ in none; for the versions a and b the text is                   *)
(* "version:\n < a\n > b\n".                                               *)
DiffOrder ==
    pc = "pairdiffed" =>
        /\ diffres = FirstDiffering(BusComponents(bus, bus2))
        /\ (bus.version = "a" /\ bus2.version = "b") =>
               /\ diffres = "version"
               /\ VersionText(bus, bus2) = <<"version:\n < ", "a", "\n > ", "b", "\n">>

(* C18: two signal groups of one name in one message are reported as      *)
(* different exactly if their sets of signal names or their repetition    *)
(* counts differ.                                                          *)
GroupDiff ==
    pc = "pairdiffed" =>
        \A i \in 1..Len(bus.messages), j \in 1..Len(bus2.messages) :
            \A g \in DictKeys(bus.messages[i].signal_groups)
                       \cap DictKeys(bus2.messages[j].signal_groups) :
                bus.messages[i].id = bus2.messages[j].id =>
                    LET mine   == DictGet(bus.messages[i].signal_groups, g)
                        theirs == DictGet(bus2.messages[j].signal_groups, g)
                    IN  (SignalGroup_diff(mine, theirs) # "") <=> GroupDiffers(mine, theirs)
-----------------------------------------------------------------------------
(* The SG_MUL_VAL_ sections of the serialized text for one message, the    *)
(* multiplexor signals of a message, and the ranges under which signal s   *)
(* stands in the switch of multiplexor m.                                  *)
MulValLines(msg) ==
    {text[i] : i \in {k \in 1..Len(text) :
                          text[k][1] = "SG_MUL_VAL_" /\ text[k][2][1] = msg.id}}

Muxes(msg) == {o \in HeapIdx(msg) : msg.heap[o].is_multiplexor}

RangesOf(msg, m, s) ==
    LET hit == SelectSeq(msg.heap[m].switch, LAMBDA e : e[2] = s)
    IN  [k \in 1..Len(hit) |-> hit[k][1]]

ExtendedMultiplexing(msg) ==
    \/ Cardinality(Muxes(msg)) > 1
    \/ \E m \in Muxes(msg) : \E s \in Children(msg, m) : Len(RangesOf(msg, m, s)) > 1

(* C19: Bus.dbc emits SG_MUL_VAL_ sections for a message only if the       *)
(* message has more than one multiplexor signal or a switch holds one      *)
(* signal under more than one range, and then it emits, for every          *)
(* multiplexor reachable from the top-level signals and every signal in    *)
(* its switch, a section with the two names and the ranges.                *)
MultiplexEmission ==
    pc = "serialized" =>
        \A i \in 1..Len(bus.messages) :
            LET msg == bus.messages[i]
            IN  /\ MulValLines(msg) # {} => ExtendedMultiplexing(msg)
                /\ ExtendedMultiplexing(msg) =>
                       \A m \in Reachable(msg) \cap Muxes(msg) :
                           \A s \in Children(msg, m) :
                               <<"SG_MUL_VAL_",
                                 <<msg.id, msg.heap[s].name, msg.heap[m].name>>,
                                 RangesOf(msg, m, s)>> \in MulValLines(msg)

MultiplexEmissionWitness ==
    /\ pc = "serialized"
    /\ \E i \in 1..Len(bus.messages) :
           /\ MulValLines(bus.messages[i]) # {}
           /\ \E m \in Muxes(bus.messages[i]) : Parents(bus.messages[i], m) # {}
-----------------------------------------------------------------------------
(* The tags Bus.__init__ extracts, in its order, and a section list with   *)
(* its sections put tag by tag, each tag's sections in their input order.  *)
Tags ==
    <<"VERSION", "BS_", "BU_", "NS_", "VAL_TABLE_", "BO_", "BO_TX_BU_", "CM_",
      "BA_DEF_", "BA_DEF_DEF_", "BA_", "VAL_", "SIG_GROUP_", "SIG_VALTYPE_",
      "SG_MUL_VAL_">>

ByTag(sl) == Flatten([k \in 1..Len(Tags) |-> SelectSeq(sl, LAMBDA t : t[1] = Tags[k])])

Outcome(b) == [b EXCEPT !.seclist = <<>>]

(* C20: _xtract_sec returns the sections of the tag in input order and     *)
(* leaves the others in input order; the Bus or the error that             *)
(* construction ends with is that of the section list put tag by tag; and  *)
(* after a successful build the working section list is empty.             *)
SectionStore ==
    /\ \A k \in 1..Len(Tags) :
           LET x == xtract_sec(bus.seclist, Tags[k])
           IN  /\ x.xtr = SelectSeq(bus.seclist, LAMBDA t : t[1] = Tags[k])
               /\ x.rest = SelectSeq(bus.seclist, LAMBDA t : t[1] # Tags[k])
    /\ (pc = "raised" \/ Built) => Outcome(bus) = Outcome(BusInit(ByTag(seclist0)))
    /\ Built => bus.seclist = <<>>

SectionStoreWitness ==
    /\ pc = "built"
    /\ bus.seclist = <<>>
    /\ \E i, j, k \in 1..Len(seclist0) :
           /\ i < j /\ j < k
           /\ seclist0[i][1] = "CM_" /\ seclist0[j][1] = "BO_" /\ seclist0[k][1] = "CM_"
           /\ seclist0[i] # seclist0[k]
-----------------------------------------------------------------------------
(* Parser.parse on texts made of up to MaxPieces pieces.                   *)

MaxPieces == 5

Pieces ==
    { KwVERSION, KwVAL_TABLE_ \o <<" ", "a", " ">>, KwNS_, <<":">>, <<"\n">>,
      <<Quote>>, <<Backslash>>, <<"a">>, <<"1">>, <<";">> }

InitParse ==
    /\ \E ps \in SeqsUpTo(Pieces, MaxPieces) : parser = NewParser(Flatten(ps))
    /\ seclist0 = <<>>
    /\ bus = NewBus(<<>>)
    /\ cl = <<>>
    /\ pc = "parse"
    /\ text = <<>>
    /\ bus2 = NewBus(<<>>)
    /\ diffres = ""
    /\ rng = NoRanges

Parsing(p) == [p EXCEPT !.pc = IF p.err # "" THEN "raised" ELSE "loop"]

(* Parser.start up to its loop.                                            *)
ParseStart ==
    /\ parser.pc = "start"
    /\ parser' = Parsing(eat_whitespace(parser))
    /\ UNCHANGED <<seclist0, bus, cl, pc, text, bus2, diffres, rng>>

(* One section.                                                            *)
ParseSection ==
    /\ parser.pc = "loop"
    /\ ~AtEnd(parser)
    /\ parser' = Parsing(StartLoop(parser))
    /\ UNCHANGED <<seclist0, bus, cl, pc, text, bus2, diffres, rng>>

(* The end of the text: Parser.parse returns the sections.                 *)
ParseEnd ==
    /\ parser.pc = "loop"
    /\ AtEnd(parser)
    /\ parser' = [assert_at_end(parser) EXCEPT !.pc = "returned"]
    /\ UNCHANGED <<seclist0, bus, cl, pc, text, bus2, diffres, rng>>

NextParse == ParseStart \/ ParseSection \/ ParseEnd

SpecParse == InitParse /\ [][NextParse]_vars

(* C14: Parser.parse returns or raises ParseError; no other exception      *)
(* leaves it, wherever the text ends.                                      *)
ParserErrorKind == parser.err \in {"", "ParseError"}

(* The backslashes of a text that stand in a string, that is after an odd  *)
(* number of quotes; whether the text is a valid one when the string is    *)
(* closed in place of the backslash; the line and the column of a          *)
(* position, lines counted from 1 and columns from 0 as the parser         *)
(* counts them.                                                            *)
InString(t, k) ==
    /\ t[k] = Backslash
    /\ Cardinality({i \in 1..(k - 1) : t[i] = Quote}) % 2 = 1

StringExpected(t, k) ==
    \/ parse(SubSeq(t, 1, k - 1) \o <<Quote>>).err = ""
    \/ parse(SubSeq(t, 1, k - 1) \o <<Quote, ";">>).err = ""

LineOf(t, k) == 1 + Cardinality({i \in 1..(k - 1) : t[i] = "\n"})

ColOf(t, k) ==
    LET nl == {i \in 1..(k - 1) : t[i] = "\n"}
    IN  k - 1 - (IF nl = {} THEN 0 ELSE CHOOSE i \in nl : \A j \in nl : j <= i)

(* C15: when a string of the text holds a backslash, Parser.parse raises   *)
(* a ParseError with the line and the column of the backslash, also for a  *)
(* string in a VAL_TABLE_ entry.                                           *)
BackslashInString ==
    parser.pc \in {"returned", "raised"} =>
        \A k \in 1..Len(parser.text) :
            (InString(parser.text, k) /\ StringExpected(parser.text, k)) =>
                /\ parser.err = "ParseError"
                /\ parser.eline = LineOf(parser.text, k)
                /\ parser.ecol = ColOf(parser.text, k)
-----------------------------------------------------------------------------
(* Range objects with limits up to MaxVal, an x, and the calls             *)
(* r1.within(x), r1.intersection(r2) and r2.intersection(r1).              *)

MaxVal == 3

InitRange ==
    /\ \E a, b, c, d, x \in 0..MaxVal :
           rng = [pc |-> "new", r1 |-> RangeOf(a, b), r2 |-> RangeOf(c, d), x |-> x]
    /\ seclist0 = <<>>
    /\ bus = NewBus(<<>>)
    /\ cl = <<>>
    /\ pc = "range"
    /\ text = <<>>
    /\ bus2 = NewBus(<<>>)
    /\ diffres = ""
    /\ parser = NewParser(<<>>)

Within ==
    /\ rng.pc = "new"
    /\ rng' = [pc |-> "within", r1 |-> rng.r1, r2 |-> rng.r2, x |-> rng.x,
               within |-> within(rng.r1, rng.x)]
    /\ UNCHANGED <<seclist0, bus, cl, pc, text, bus2, diffres, parser>>

Intersection ==
    /\ rng.pc = "within"
    /\ rng' = [pc |-> "intersected", r1 |-> rng.r1, r2 |-> rng.r2, x |-> rng.x,
               within |-> rng.within,
               there |-> intersection(rng.r1, rng.r2),
               back |-> intersection(rng.r2, rng.r1)]
    /\ UNCHANGED <<seclist0, bus, cl, pc, text, bus2, diffres, parser>>

NextRange == Within \/ Intersection

SpecRange == InitRange /\ [][NextRange]_vars

(* C21: Range(a, b).within(x) is a <= x <= b; the intersection of two      *)
(* ranges is the same in both directions, is None exactly if no value lies *)
(* in both, and is otherwise the range from the larger minimum to the      *)
(* smaller maximum.                                                        *)
RangeSemantics ==
    rng.pc = "intersected" =>
        LET a == rng.r1[1]
            b == rng.r1[2]
            c == rng.r2[1]
            d == rng.r2[2]
            shared == {v \in 0..MaxVal : a <= v /\ v <= b /\ c <= v /\ v <= d}
        IN  /\ rng.within <=> (a <= rng.x /\ rng.x <= b)
            /\ rng.there = rng.back
            /\ (rng.there = <<>>) <=> (shared = {})
            /\ shared # {} => rng.there = <<IF a > c THEN a ELSE c, IF b < d THEN b ELSE d>>
-----------------------------------------------------------------------------
(* C22: the VAL_TABLE_ step stores, for every section, a table that maps   *)
(* each value of the section to the label of the last entry with that      *)
(* value, with a DatabaseWarning and no error for a repeated value; a      *)
(* table name in two sections gives DatabaseError.                         *)
TableStep_Holds ==
    LET tabs == SelectSeq(bus.seclist, LAMBDA t : t[1] = "VAL_TABLE_")
        reused == \E i, j \in 1..Len(tabs) : i # j /\ tabs[i][2] = tabs[j][2]
        Last(tl, v) == CHOOSE i \in 1..Len(tl) :
                           tl[i][1] = v /\ \A j \in 1..Len(tl) : tl[j][1] = v => j <= i
    IN  pc = "VAL_TABLE_" =>
            IF reused
            THEN bus'.err = "DatabaseError" /\ bus'.errmsg = "multiply defined table"
            ELSE /\ bus'.err = ""
                 /\ DictKeys(bus'.global_values) = {tabs[i][2] : i \in 1..Len(tabs)}
                 /\ \A i \in 1..Len(tabs) :
                        LET tl   == tabs[i][3]
                            vals == DictGet(bus'.global_values, tabs[i][2])
                        IN  /\ DictKeys(vals) = {tl[k][1] : k \in 1..Len(tl)}
                            /\ Len(vals) = Cardinality(DictKeys(vals))
                            /\ \A k \in 1..Len(tl) :
                                   DictGet(vals, tl[k][1]) = tl[Last(tl, tl[k][1])][2]
                            /\ (\E k, h \in 1..Len(tl) : k # h /\ tl[k][1] = tl[h][1])
                                   <=> (\E w \in 1..Len(bus'.warnings) :
                                            bus'.warnings[w][1] = "table"
                                            /\ bus'.warnings[w][2] = tabs[i][2])

TableStep == [][TableStep_Holds]_vars

TableStepWitness ==
    /\ pc = "BO_"
    /\ bus.err = ""
    /\ DictHas(bus.global_values, "T1")
    /\ DictHas(DictGet(bus.global_values, "T1"), 1)
    /\ DictGet(DictGet(bus.global_values, "T1"), 1) = "z"
    /\ bus.warnings # <<>>
-----------------------------------------------------------------------------
(* C23: while the parse goes on, line is 1 + the number of newlines before *)
(* the offset and col is 1 + the number of characters between the last     *)
(* newline, or the start of the text, and the offset.                      *)
CursorPosition ==
    parser.err = "" =>
        /\ parser.line = LineOf(parser.text, parser.n + 1)
        /\ parser.col = 1 + ColOf(parser.text, parser.n + 1)
-----------------------------------------------------------------------------
(* Parser.section_keyword at the start of a section, on texts made of up   *)
(* to MaxFragments fragments of section keywords.                          *)

MaxFragments == 3

Fragments ==
    { <<"B", "A", "_">>, <<"D", "E", "F", "_">>, <<"B", "O", "_">>,
      <<"T", "X", "_", "B", "U", "_">>, <<"V", "A", "L", "_">>,
      <<"T", "A", "B", "L", "E", "_">>, KwNS_, <<"E", "V", "_">>, <<" ">>,
      <<"x">> }

(* Parser.parse and Parser.start up to the loop.                           *)
InitKeyword ==
    /\ \E fs \in SeqsUpTo(Fragments, MaxFragments) :
           parser = [eat_whitespace(NewParser(Flatten(fs))) EXCEPT !.pc = "keyword"]
    /\ seclist0 = <<>>
    /\ bus = NewBus(<<>>)
    /\ cl = <<>>
    /\ pc = "keyword"
    /\ text = <<>>
    /\ bus2 = NewBus(<<>>)
    /\ diffres = ""
    /\ rng = NoRanges

(* The call of section_keyword in the first turn of the loop.              *)
Keyword ==
    /\ parser.pc = "keyword"
    /\ ~AtEnd(parser)
    /\ parser' = [section_keyword(parser) EXCEPT
                      !.pc = IF section_keyword(parser).err # "" THEN "raised"
                             ELSE "matched"]
    /\ UNCHANGED <<seclist0, bus, cl, pc, text, bus2, diffres, rng>>

NextKeyword == Keyword

SpecKeyword == InitKeyword /\ [][NextKeyword]_vars

(* The section keywords that the text holds at position n.                 *)
KeywordsAt(t, n) ==
    {k \in Range1(sections) : n + Len(k) <= Len(t) /\ SubSeq(t, n + 1, n + Len(k)) = k}

(* C24: section_keyword returns the longest section keyword that the text  *)
(* starts with at the cursor and moves the cursor (n and col) by exactly   *)
(* its length; when no keyword starts there it raises ParseError at the    *)
(* cursor, which has not moved.                                            *)
LongestKeyword ==
    parser.pc \in {"matched", "raised"} =>
        LET before == eat_whitespace(NewParser(parser.text))
            found  == KeywordsAt(parser.text, before.n)
        IN  IF found = {}
            THEN /\ parser.err = "ParseError"
                 /\ getpos(parser) = getpos(before)
                 /\ <<parser.eline, parser.ecol>> = <<before.line, before.col>>
            ELSE /\ parser.err = ""
                 /\ parser.val \in found
                 /\ \A k \in found : Len(k) <= Len(parser.val)
                 /\ getpos(parser) = <<before.n + Len(parser.val), before.line,
                                       before.col + Len(parser.val)>>

LongestKeywordWitness ==
    /\ parser.pc = "matched"
    /\ parser.val = <<"B", "A", "_", "D", "E", "F", "_", "D", "E", "F", "_">>
    /\ parser.n = 11
-----------------------------------------------------------------------------
(* The combinators of the parser, with their rules given by name.          *)

NoneVal == <<"None">>

Rules == {"sint", "string", "value_entry", "identifier"}

(* rule(), for the rules the grammar passes to the combinators.            *)
Apply(rule, p) ==
    CASE rule = "sint" -> sint(p)
      [] rule = "string" -> string(p)
      [] rule = "value_entry" -> value_entry(p)
      [] OTHER -> identifier(p, keywords)

(* Parser.optional: only ParseError is caught.                             *)
optional(p, rule) ==
    LET res == Apply(rule, p)
    IN  IF res.err = "ParseError" THEN [setpos(res, getpos(p)) EXCEPT
                                            !.err = "", !.msg = "", !.eline = 0,
                                            !.ecol = 0, !.val = NoneVal]
        ELSE res

(* Parser.one_of: ex is the exception kept so far, ln and cn its place.    *)
RECURSIVE one_of_loop(_, _, _, _, _)
one_of_loop(p, rules, ln, cn, ex) ==
    IF rules = <<>> THEN ex
    ELSE LET res    == Apply(Head(rules), p)
             later  == res.eline > ln \/ (res.eline = ln /\ cn < res.ecol)
             raised == [setpos(res, getpos(p)) EXCEPT !.val = p.val]
         IN  IF res.err # "ParseError" THEN res
             ELSE IF later
             THEN one_of_loop(p, Tail(rules), res.eline, res.ecol, raised)
             ELSE one_of_loop(p, Tail(rules), ln, cn, ex)

one_of(p, rules) == one_of_loop(p, rules, 0, 0, p)

(* The combinators at the first token of texts of up to MaxCombLen         *)
(* characters.                                                             *)
MaxCombLen == 4

CombChars == {Quote, Backslash, "a", "1", " ", "\n"}

RuleLists == {rs \in SeqsUpTo(Rules, 3) : rs # <<>> /\ \A i, j \in DOMAIN rs : rs[i] = rs[j] => i = j}

InitComb ==
    /\ \E t \in SeqsUpTo(CombChars, MaxCombLen) :
           parser = [eat_whitespace(NewParser(t)) EXCEPT !.pc = "comb"]
    /\ seclist0 = <<>>
    /\ bus = NewBus(<<>>)
    /\ cl = <<>>
    /\ pc = "comb"
    /\ text = <<>>
    /\ bus2 = NewBus(<<>>)
    /\ diffres = ""
    /\ rng = NoRanges

Optional ==
    /\ parser.pc = "comb"
    /\ \E rule \in Rules : parser' = [optional(parser, rule) EXCEPT !.pc = "optional"]
    /\ UNCHANGED <<seclist0, bus, cl, pc, text, bus2, diffres, rng>>

AnyNumberOf ==
    /\ parser.pc = "comb"
    /\ parser' = [any_number_of(parser, <<>>) EXCEPT !.pc = "any_number_of"]
    /\ UNCHANGED <<seclist0, bus, cl, pc, text, bus2, diffres, rng>>

OneOf ==
    /\ parser.pc = "comb"
    /\ \E rules \in RuleLists : parser' = [one_of(parser, rules) EXCEPT !.pc = "one_of"]
    /\ UNCHANGED <<seclist0, bus, cl, pc, text, bus2, diffres, rng>>

NextComb == Optional \/ AnyNumberOf \/ OneOf

SpecComb == InitComb /\ [][NextComb]_vars

(* (line, column) of the error r is not after that of the error q.         *)
NotAfter(r, q) == r.eline < q.eline \/ (r.eline = q.eline /\ r.ecol <= q.ecol)

Returned(q, res) == q.err = "" /\ q.val = res.val /\ getpos(q) = getpos(res)

OptionalOK(p, q) ==
    \A rule \in Rules :
        q = [optional(p, rule) EXCEPT !.pc = "optional"] =>
            LET res == Apply(rule, p)
            IN  IF res.err = "" THEN Returned(q, res)
                ELSE q.err = "" /\ q.val = NoneVal /\ getpos(q) = getpos(p)

AnyNumberOfOK(p, q) ==
    q = [any_number_of(p, <<>>) EXCEPT !.pc = "any_number_of"] =>
        /\ q.err = ""
        /\ AtEnd(q) \/ value_entry(q).err # ""

OneOfOK(p, q) ==
    \A rules \in RuleLists :
        q = [one_of(p, rules) EXCEPT !.pc = "one_of"] =>
            LET res  == [i \in DOMAIN rules |-> Apply(rules[i], p)]
                good == {i \in DOMAIN rules : res[i].err = ""}
            IN  IF good # {}
                THEN Returned(q, res[CHOOSE i \in good : \A j \in good : i <= j])
                ELSE /\ q.err = "ParseError"
                     /\ getpos(q) = getpos(p)
                     /\ \E i \in DOMAIN rules :
                            /\ <<q.eline, q.ecol, q.msg>> =
                                   <<res[i].eline, res[i].ecol, res[i].msg>>
                            /\ \A j \in DOMAIN rules : NotAfter(res[j], res[i])

Backtracking_Holds ==
    parser.pc = "comb" =>
        /\ OptionalOK(parser, parser')
        /\ AnyNumberOfOK(parser, parser')
        /\ OneOfOK(parser, parser')

(* C25: one_of returns what its first succeeding alternative returns and,  *)
(* when all fail, raises the ParseError of an alternative whose (line,     *)
(* column) no other alternative's error exceeds; optional returns None     *)
(* when its rule fails; a combinator that handles a failing rule leaves    *)
(* offset, line and column as they were before the rule.                   *)
Backtracking == [][Backtracking_Holds]_vars

(* C26: a section that directly follows the NS_ section is parsed as a     *)
(* section of its own: when a text is an NS_ section followed, at a        *)
(* section keyword, by a text that parses on its own, the sections of the  *)
(* whole are the NS_ section and then the sections of the rest.            *)
NSBodyStops ==
    parser.pc \in {"returned", "raised"} =>
        \A k \in 1..Len(parser.text) :
            LET head == parse(SubSeq(parser.text, 1, k))
                rest == parse(SubSeq(parser.text, k + 1, Len(parser.text)))
            IN  (/\ KeywordsAt(parser.text, k) # {}
                 /\ head.err = ""
                 /\ Len(head.secs) = 1
                 /\ head.secs[1][1] = "NS_"
                 /\ rest.err = "")
                => /\ parser.err = ""
                   /\ parser.secs = head.secs \o rest.secs
-----------------------------------------------------------------------------
(* The SG_ rule.                                                           *)

strmatch(p, s) ==
    IF p.n + Len(s) <= Len(p.text) /\ SubSeq(p.text, p.n + 1, p.n + Len(s)) = s
    THEN [p EXCEPT !.n = @ + Len(s), !.col = @ + Len(s), !.val = s]
    ELSE ParseError(p, "Expected, found")

uint(p) ==
    LET n1 == Run(p.text, p.n, Range1(Digits))
    IN  IF n1 > p.n
        THEN [p EXCEPT !.n = n1, !.col = @ + (n1 - p.n),
                       !.val = IntOf(SubSeq(p.text, p.n + 1, n1))]
        ELSE ParseError(p, "Expected unsigned int, found")

(* Parser.double on texts without '.', 'e' and 'E', where its pattern      *)
(* matches what that of sint matches.                                      *)
double(p) ==
    LET r == sint(p)
    IN  IF r.err # "" THEN ParseError(p, "Expected a floating point, found") ELSE r

multiplex_value(p) ==
    LET m == charmatch(p, "m")
    IN  IF m.err # "" THEN m ELSE uint(eat_whitespace(m))

(* optional(multiplex_value), then M or not.                               *)
multiplex_spec(p) ==
    LET m    == multiplex_value(p)
        mval == IF m.err = "ParseError" THEN [p EXCEPT !.val = None] ELSE m
        w    == eat_whitespace(mval)
        M    == charmatch(w, "M")
    IN  IF mval.err # "" THEN mval
        ELSE IF M.err = "" THEN [M EXCEPT !.val = <<mval.val, TRUE>>]
        ELSE [w EXCEPT !.val = <<mval.val, FALSE>>]

(* Parser.endian: for another character the ParseError is made and not     *)
(* raised, the method returns None where it stands.                        *)
endian(p) ==
    IF AtEnd(p) THEN IndexError(p)
    ELSE IF Cur(p) = "1" THEN [p EXCEPT !.n = @ + 1, !.col = @ + 1, !.val = "True"]
    ELSE IF Cur(p) = "0" THEN [p EXCEPT !.n = @ + 1, !.col = @ + 1, !.val = "False"]
    ELSE [p EXCEPT !.val = "None"]

signed(p) ==
    IF AtEnd(p) THEN IndexError(p)
    ELSE IF Cur(p) = "+" THEN [p EXCEPT !.n = @ + 1, !.col = @ + 1, !.val = "False"]
    ELSE IF Cur(p) = "-" THEN [p EXCEPT !.n = @ + 1, !.col = @ + 1, !.val = "True"]
    ELSE [p EXCEPT !.val = "None"]

keywords_most == keywords \ {<<"V", "e", "c", "t", "o", "r", "_", "_", "X", "X", "X">>}

additional_receiver(p) ==
    LET c == charmatch(eat_whitespace(p), ",")
    IN  IF c.err # "" THEN c ELSE identifier(eat_whitespace(c), keywords_most)

(* any_number_of(self.additional_receiver).                                *)
RECURSIVE additional_receivers(_, _)
additional_receivers(p, res) ==
    IF AtEnd(p) THEN [p EXCEPT !.val = res]
    ELSE LET res0 == additional_receiver(p)
         IN  IF res0.err = "ParseError" THEN [p EXCEPT !.val = res]
             ELSE IF res0.err # "" THEN res0
             ELSE additional_receivers(res0, Append(res, res0.val))

(* The steps of Parser.signal in their order.                              *)
SignalRules ==
    <<"SG_", "name", "multiplex_spec", ":", "uint", "|", "uint", "@", "endian",
      "signed", "(", "double", ",", "double", ")", "[", "double", "|", "double",
      "]", "string", "receiver", "receivers">>

(* One step of Parser.signal, with the eat_whitespace before it.           *)
SignalRule(rule, p) ==
    LET w == eat_whitespace(p)
    IN  CASE rule = "SG_" -> strmatch(w, <<"S", "G", "_">>)
          [] rule = "name" -> identifier(w, keywords)
          [] rule = "multiplex_spec" -> multiplex_spec(w)
          [] rule = "uint" -> uint(w)
          [] rule = "endian" -> endian(w)
          [] rule = "signed" -> signed(w)
          [] rule = "double" -> double(w)
          [] rule = "string" -> string(w)
          [] rule = "receiver" -> identifier(w, keywords_most)
          [] rule = "receivers" -> additional_receivers(p, <<>>)
          [] OTHER -> charmatch(w, rule)

(* The steps from the cursor on; vals are the results so far.              *)
RECURSIVE SignalRun(_, _, _)
SignalRun(p, rules, vals) ==
    IF rules = <<>> THEN [p EXCEPT !.val = vals]
    ELSE LET r == SignalRule(Head(rules), p)
         IN  IF r.err # "" THEN r
             ELSE SignalRun(r, Tail(rules), Append(vals, r.val))

signal(p) ==
    LET r == SignalRun(p, SignalRules, <<>>)
        v == r.val
    IN  IF r.err # "" THEN r
        ELSE [r EXCEPT !.val =
                 [name |-> v[2], multiplex_value |-> v[3][1],
                  is_multiplexor |-> v[3][2], start |-> v[5], size |-> v[7],
                  little_endian |-> v[9], signed |-> v[10], factor |-> v[12],
                  offset |-> v[14], range |-> <<v[17], v[19]>>, unit |-> v[21],
                  receivers |-> <<v[22]>> \o v[23]]]

(* Parser.signal on SG_ lines that differ in up to MaxMid characters       *)
(* between '@' and '('.                                                    *)
MaxMid == 3

MidChars == {"0", "1", "2", "+", "-", "x", " "}

SignalHeads ==
    { <<" ", "S", "G", "_", " ", "S", " ", ":", " ", "0", "|", "8", "@">>,
      <<"S", "G", "_", " ", "S", " ", "m", "1", " ", ":", "0", "|", "8", "@">>,
      <<"S", "G", "_", " ", "S", " ", "M", ":", "1", "6", "|", "8", " ", "@", " ">> }

SignalTails ==
    { <<"(", "1", ",", "0", ")", " ", "[", "0", "|", "1", "]", " ", Quote, Quote,
        " ", "N", "\n">>,
      <<" ", "(", "2", ",", "-", "1", ")", "[", "0", "|", "5", "]", Quote, "V",
        Quote, " ", "N", ",", "N", "2">> }

InitSignal ==
    /\ \E h \in SignalHeads, m \in SeqsUpTo(MidChars, MaxMid), t \in SignalTails :
           parser = [NewParser(h \o m \o t) EXCEPT !.pc = "signal"]
    /\ seclist0 = <<>>
    /\ bus = NewBus(<<>>)
    /\ cl = <<>>
    /\ pc = "signal"
    /\ text = <<>>
    /\ bus2 = NewBus(<<>>)
    /\ diffres = ""
    /\ rng = NoRanges

ParseSignal ==
    /\ parser.pc = "signal"
    /\ parser' = [signal(parser) EXCEPT
                      !.pc = IF signal(parser).err # "" THEN "raised" ELSE "returned"]
    /\ UNCHANGED <<seclist0, bus, cl, pc, text, bus2, diffres, rng>>

NextSignal == ParseSignal

SpecSignal == InitSignal /\ [][NextSignal]_vars

(* The first character of the text from offset n on that is no whitespace. *)
CharAfter(t, n) == LET k == Run(t, n, Whitespace) IN IF k < Len(t) THEN t[k + 1] ELSE ""

(* C27: a signal line is accepted only with 0 or 1 after the '@' and + or  *)
(* - after that, so that little_endian and signed of an accepted signal    *)
(* are True or False, never None.                                          *)
EncodingFields ==
    parser.pc = "returned" =>
        LET at == CHOOSE i \in DOMAIN parser.text : parser.text[i] = "@"
            e  == Run(parser.text, at, Whitespace) + 1
        IN  /\ CharAfter(parser.text, at) \in {"0", "1"}
            /\ CharAfter(parser.text, e) \in {"+", "-"}
            /\ parser.val.little_endian \in {"True", "False"}
            /\ parser.val.signed \in {"True", "False"}

(* C28: no step of the construction of a Bus changes the section list it   *)
(* was given.                                                              *)
InputUnchanged == [][seclist0' = seclist0]_vars
-----------------------------------------------------------------------------
(* The signals below signal o: reachable through one or more switches.     *)
Below(msg, o) == ReachFrom(msg, Children(msg, o), Len(msg.heap))

(* C29: in a built Bus the signals reachable from the top-level signals of *)
(* a message through the switches form a forest: none of them is below     *)
(* itself, none is in the switch of two signals, none at top level is in a *)
(* switch; and Signal.dbc_sg_mul_val, started at a top-level signal, comes *)
(* to an end (its lines do not grow with the depth allowed).               *)
MultiplexForest ==
    Built => \A i \in 1..Len(bus.messages) :
                 LET msg == bus.messages[i]
                 IN  /\ \A o \in Reachable(msg) :
                            /\ o \notin Below(msg, o)
                            /\ Cardinality(Parents(msg, o)) <= 1
                            /\ o \in TopLevel(msg) => Parents(msg, o) = {}
                     /\ \A o \in TopLevel(msg) :
                            Signal_dbc_sg_mul_val(msg, o, Len(msg.heap))
                                = Signal_dbc_sg_mul_val(msg, o, Len(msg.heap) + 1)

(* A built Bus with a signal in its own switch (a multiplexor with a       *)
(* multiplex value of its own, or named as signal and multiplexor by one   *)
(* section): it is not at top level, nothing reaches it.                   *)
MultiplexForestWitness ==
    /\ pc = "built"
    /\ \E i \in 1..Len(bus.messages) :
           LET msg == bus.messages[i]
           IN  \E o \in HeapIdx(msg) : o \in Children(msg, o) /\ o \notin TopLevel(msg)
-----------------------------------------------------------------------------
(* The names of the top-level signals of a message, in their order.        *)
TopNames(msg) == [k \in 1..Len(msg.signals) |-> msg.heap[msg.signals[k]].name]

(* The switch of signal o as a set of (range, signal name).                *)
SwitchEntries(msg, o) ==
    {<<msg.heap[o].switch[e][1], msg.heap[msg.heap[o].switch[e][2]].name>> :
         e \in 1..Len(msg.heap[o].switch)}

(* C30: the Bus rebuilt from the dbc text of a built Bus has, in every     *)
(* message, the same top-level signal names in the same order and, for     *)
(* every multiplexor, the same (range, signal name) switch entries.        *)
HierarchyKept ==
    pc \in {"rebuilt", "diffed"} =>
        \A i \in 1..Len(bus.messages) :
            LET m1 == bus.messages[i]
            IN  /\ MsgHas(bus2.messages, m1.id)
                /\ LET m2 == bus2.messages[MsgIdx(bus2.messages, m1.id)]
                   IN  /\ TopNames(m2) = TopNames(m1)
                       /\ DictKeys(m2.signals_dict) = DictKeys(m1.signals_dict)
                       /\ \A name \in DictKeys(m1.signals_dict) :
                              LET o1 == DictGet(m1.signals_dict, name)
                                  o2 == DictGet(m2.signals_dict, name)
                              IN  m1.heap[o1].is_multiplexor =>
                                      SwitchEntries(m2, o2) = SwitchEntries(m1, o1)
=============================================================================
